---- MODULE Spec2Model ----
(***************************************************************************)
(* A model of lighthouse's metadata cache (plugin/lighthouse/metadata.py): *)
(* DatabaseMetadata with its lookup lists and single-slot memo, the        *)
(* threaded refresh (refresh / abort_refresh / _async_refresh /            *)
(* _async_collect_metadata / _update_functions), the entity construction   *)
(* (FunctionMetadata, NodeMetadata) and MetadataDelta.                     *)
(*                                                                         *)
(* Python dictionaries are TLA+ functions over their key sets, lists are   *)
(* sequences, None is the string "None".  A node's back-reference          *)
(* node.function is kept as the fields of the owner that                   *)
(* FunctionMetadata.__eq__ reads (nothing else is ever read through it).   *)
(***************************************************************************)
EXTENDS Integers, Sequences, FiniteSets, TLC

\* ------------------------------------------------------------------ bounds
\* number of function slots of the modelled database
MaxFuncs == 2
\* functions collected per chunk (150 in the source, scaled to the model)
CHUNK_SIZE == 1
\* database edits (user defines / undefines / renames) per behaviour
MaxEdits == 1
\* refresh() calls that get past the assertion, per behaviour
MaxRefreshes == 2

\* bytes reserved per function slot: three code bytes and one gap byte
FuncSpan == 4

\* Python's None where a string is expected, where an object is expected,
\* and in the slot that holds the worker thread
None == "None"
NoObject == [none |-> TRUE]
NoWorker == 0

FuncAddrs == {FuncSpan * i : i \in 0..(MaxFuncs - 1)}
Addrs == 0..(FuncSpan * MaxFuncs - 1)

\* ------------------------------------------------------- python built-ins
Min(S) == CHOOSE x \in S : \A y \in S : x <= y

RECURSIVE sorted(_)
\* sorted(keys): the ascending list of a set of integers
sorted(S) == IF S = {} THEN << >> ELSE <<Min(S)>> \o sorted(S \ {Min(S)})

\* bisect.bisect_right on an ascending list: the number of entries <= x
bisect_right(lst, x) == Cardinality({i \in 1..Len(lst) : lst[i] <= x})

\* dict.update(): d with the entries of u written over it
update(d, u) == u @@ d

EmptyDict == [a \in {} |-> 0]

RECURSIVE SumOver(_, _)
\* sum(f[k] for k in S)
SumOver(f, S) ==
    IF S = {} THEN 0
    ELSE LET k == CHOOSE k \in S : TRUE IN f[k] + SumOver(f, S \ {k})

\* ---------------------------------------------- the disassembly database
\* What IDA reports for a function slot.  Variant 0: no function there (no
\* name, an empty flowchart; IDA may also fail the request).
\* 1: one block of 3 bytes, instructions of 1 and 2 bytes.
\* 2: the same block, instructions of 2 and 1 bytes.
\* 3: two one-byte blocks with an undefined byte between them.
\* 4: variant 1 renamed.
\* 5: variant 1 with an empty block first in the flowchart.
Variants == 0..5

\* idaapi.get_func_name2(address)
get_func_name(v) == IF v = 0 THEN None ELSE IF v = 4 THEN "b" ELSE "a"

\* the flowchart of the function at base address B: <<startEA, endEA>> pairs
flowchart(B, v) ==
    CASE v = 0 -> << >>
      [] v = 3 -> << <<B, B + 1>>, <<B + 2, B + 3>> >>
      [] v = 5 -> << <<B, B>>, <<B, B + 3>> >>
      [] OTHER -> << <<B, B + 3>> >>

\* idaapi.get_item_end(a) inside the function at base address B
get_item_end(B, v, a) ==
    CASE v = 2 -> IF a < B + 2 THEN B + 2 ELSE B + 3
      [] v = 3 -> a + 1
      [] OTHER -> IF a < B + 1 THEN B + 1 ELSE B + 3

\* ---------------------------------------------------- entity construction
RECURSIVE WalkItems(_, _, _, _)
\* NodeMetadata._build_metadata: the instruction map of [cur, node_end)
WalkItems(cur, node_end, item_end, acc) ==
    IF cur < node_end
    THEN WalkItems(item_end[cur], node_end, item_end,
                   update(acc, (cur :> (item_end[cur] - cur))))
    ELSE acc

\* NodeMetadata.__init__ followed by the id and owner assignments of
\* FunctionMetadata._refresh_nodes
NodeMetadata(startEA, endEA, item_end, node_id, owner) ==
    LET ins == WalkItems(startEA, endEA, item_end, EmptyDict) IN
    [address |-> startEA,
     size |-> endEA - startEA,
     instruction_count |-> Cardinality(DOMAIN ins),
     id |-> node_id,
     function |-> owner,
     instructions |-> ins]

\* a variant of RefreshNodes that builds a node for an empty block too
RefreshNodesOfAllBlocks(flow, item_end, owner) ==
    LET last(a) == CHOOSE i \in 1..Len(flow) : flow[i][1] = a
                       /\ \A j \in 1..Len(flow) : flow[j][1] = a => j <= i
    IN [a \in {flow[i][1] : i \in 1..Len(flow)} |->
           NodeMetadata(a, flow[last(a)][2], item_end, last(a) - 1, owner)]

\* FunctionMetadata._refresh_nodes: one node per non-empty block, keyed by
\* its start address, its id the block's index in the flowchart
RefreshNodes(flow, item_end, owner) ==
    LET kept == {i \in 1..Len(flow) : flow[i][1] # flow[i][2]}
        \* a later block at the same start address overwrites an earlier one
        last(a) == CHOOSE i \in kept : flow[i][1] = a
                       /\ \A j \in kept : flow[j][1] = a => j <= i
    IN [a \in {flow[i][1] : i \in kept} |->
           NodeMetadata(a, flow[last(a)][2], item_end, last(a) - 1, owner)]

\* the fields FunctionMetadata.__eq__ compares
FunctionKey(address, name, nodes) ==
    [name |-> name,
     size |-> SumOver([a \in DOMAIN nodes |-> nodes[a].size], DOMAIN nodes),
     address |-> address,
     node_count |-> Cardinality(DOMAIN nodes),
     instruction_count |->
         SumOver([a \in DOMAIN nodes |-> nodes[a].instruction_count], DOMAIN nodes),
     node_addresses |-> DOMAIN nodes]

\* FunctionMetadata(address): _refresh_name, _refresh_nodes, _finalize
FunctionMetadata(address, name, flow, item_end) ==
    LET bare == RefreshNodes(flow, item_end, NoObject)
        key == FunctionKey(address, name, bare)
    IN [address |-> address,
        name |-> name,
        nodes |-> [a \in DOMAIN bare |-> [bare[a] EXCEPT !.function = key]],
        size |-> key.size,
        node_count |-> key.node_count,
        instruction_count |-> key.instruction_count]

\* a variant of FunctionEq that takes two functions at one address for equal
FunctionEqByAddress(f, g) == f.address = g.address

\* FunctionMetadata.__eq__
FunctionEq(f, g) ==
    /\ f.name = g.name
    /\ f.size = g.size
    /\ f.address = g.address
    /\ f.node_count = g.node_count
    /\ f.instruction_count = g.instruction_count
    /\ DOMAIN f.nodes = DOMAIN g.nodes

\* a variant of NodeEq that compares the identity of the two objects, which
\* nodes of two DatabaseMetadata built apart never share
NodeEqByIdentity(n, m) == FALSE

\* NodeMetadata.__eq__
NodeEq(n, m) ==
    /\ n.size = m.size
    /\ n.address = m.address
    /\ n.instruction_count = m.instruction_count
    /\ n.function = m.function
    /\ n.id = m.id

\* NodeMetadata.__contains__
NodeContains(n, address) ==
    n.address <= address /\ address < n.address + n.size

\* the function the database holds at slot B in variant v
BuildFunction(B, v) ==
    FunctionMetadata(B, get_func_name(v), flowchart(B, v),
                     [a \in B..(B + FuncSpan - 1) |-> get_item_end(B, v, a)])

\* idautils.Functions(): the addresses of the defined functions, ascending
Functions(database) == sorted({B \in FuncAddrs : database[B] # 0})

\* collect_function_metadata(addresses): { ea: FunctionMetadata(ea) }
collect_function_metadata(database, addresses) ==
    [ea \in {addresses[i] : i \in 1..Len(addresses)} |->
        BuildFunction(ea, database[ea])]

\* chunks(l, n): l cut into consecutive pieces of n entries, the last shorter
chunks(l, n) ==
    [i \in 1..((Len(l) + n - 1) \div n) |->
        SubSeq(l, (i - 1) * n + 1, IF i * n < Len(l) THEN i * n ELSE Len(l))]

\* ------------------------------------------------------------------ state
VARIABLES
    database,             \* the disassembly database: slot -> variant
    edits,                \* database edits made so far
    functions,            \* DatabaseMetadata.functions
    nodes,                \* DatabaseMetadata.nodes
    instructions,         \* DatabaseMetadata.instructions
    stale_lookup,         \* DatabaseMetadata._stale_lookup
    last_node,            \* DatabaseMetadata._last_node
    node_addresses,       \* DatabaseMetadata._node_addresses
    function_addresses,   \* DatabaseMetadata._function_addresses
    refresh_worker,       \* DatabaseMetadata._refresh_worker
    stop_threads,         \* DatabaseMetadata._stop_threads
    old_metadata,         \* an earlier DatabaseMetadata kept by the caller
    cpc,                  \* caller thread -> the statement it is at
    loc,                  \* caller thread -> the locals of its call
    ret,                  \* caller thread -> what its last call returned
    wpc,                  \* worker thread -> the statement it is at
    wloc,                 \* worker thread -> the locals of _async_refresh
    result_queue,         \* worker thread -> the Queue refresh() returned
    started,              \* worker threads started so far
    lock,                 \* the threading.Lock given to await_lock
    now                   \* time.time(), in hundredths of a second

cache == <<functions, nodes, instructions, stale_lookup, last_node,
           node_addresses, function_addresses>>
flags == <<refresh_worker, stop_threads>>
callers == <<cpc, loc>>
workers == <<wpc, wloc, result_queue, started>>
host == <<lock, now>>
vars == <<database, edits, functions, nodes, instructions, stale_lookup,
          last_node, node_addresses, function_addresses, refresh_worker,
          stop_threads, old_metadata, cpc, loc, ret, wpc, wloc,
          result_queue, started, lock, now>>

Threads == {1, 2}
Workers == 1..MaxRefreshes

\* what a caller may pass to refresh() as function_addresses: None (full),
\* or an ascending list of slots
TargetLists ==
    {[full |-> TRUE, list |-> << >>]}
    \cup {[full |-> FALSE, list |-> sorted(S)] : S \in SUBSET FuncAddrs}

NoLocals == [op |-> None]
NoReturn == [op |-> None]
NoReturns == [t \in {1, 2} |-> NoReturn]
NoWorkerLocals == [targets |-> << >>, chunk |-> 0, changed |-> FALSE,
                   completed |-> FALSE, full |-> FALSE, edits |-> 0,
                   progress |-> << >>, abort_requested |-> FALSE]

\* DatabaseMetadata.__init__, with the database in any state a user may
\* have left it in
Init ==
    /\ database \in [FuncAddrs -> {0, 1}]
    /\ edits = 0
    /\ functions = EmptyDict
    /\ nodes = EmptyDict
    /\ instructions = EmptyDict
    /\ stale_lookup = FALSE
    /\ last_node = NoObject
    /\ node_addresses = << >>
    /\ function_addresses = << >>
    /\ refresh_worker = NoWorker
    /\ stop_threads = FALSE
    /\ old_metadata = NoObject
    /\ cpc = [t \in Threads |-> "idle"]
    /\ loc = [t \in Threads |-> NoLocals]
    /\ ret = [t \in Threads |-> NoReturn]
    /\ wpc = [w \in Workers |-> "unborn"]
    /\ wloc = [w \in Workers |-> NoWorkerLocals]
    /\ result_queue = [w \in Workers |-> << >>]
    /\ started = 0
    /\ lock = "unlocked"
    /\ now = 0

\* ------------------------------------------------- the handlers, as wholes
\* a variant of MergeInstructions that writes no instruction of the delta
MergeInstructionsOfNone(nds, keys, acc) == acc

RECURSIVE MergeInstructions(_, _, _)
\* for node_metadata in function_metadata.nodes.itervalues():
\*     self.instructions.update(node_metadata.instructions)
MergeInstructions(nds, keys, acc) ==
    IF keys = << >> THEN acc
    ELSE MergeInstructions(nds, Tail(keys),
                           update(acc, nds[Head(keys)].instructions))

RECURSIVE MergeDelta(_, _, _)
\* for function_metadata in delta.itervalues(): the nodes and instructions
\* maps with each delta function written over them, in the order a dict of
\* small integer keys is iterated (ascending)
MergeDelta(delta, keys, acc) ==
    IF keys = << >> THEN acc
    ELSE LET nds == delta[Head(keys)].nodes IN
         MergeDelta(delta, Tail(keys),
             [nodes |-> update(acc.nodes, nds),
              instructions |->
                  MergeInstructions(nds, sorted(DOMAIN nds), acc.instructions)])

\* a variant of ChangedFunctions that keeps every entry of fresh_metadata
\* without comparing it with the cached function
ChangedFunctionsUncompared(fns, fresh) == DOMAIN fresh

\* the entries of fresh_metadata _update_functions keeps: those with no
\* cached function at their address, or one that is not == the fresh one
ChangedFunctions(fns, fresh) ==
    {a \in DOMAIN fresh : ~(a \in DOMAIN fns /\ FunctionEq(fns[a], fresh[a]))}

\* a variant of update_functions that writes the delta over the functions
\* map and leaves the nodes and instructions maps as they were
update_functions_only(fns, nds, ins, stale, fresh) ==
    LET changed == ChangedFunctions(fns, fresh)
        delta == [a \in changed |-> fresh[a]]
        new_functions == update(fns, delta)
    IN [delta |-> delta,
        functions |-> new_functions,
        nodes |-> nds,
        instructions |-> ins,
        stale_lookup |->
            IF Cardinality(DOMAIN fns) # Cardinality(DOMAIN new_functions)
            THEN TRUE ELSE stale]

\* DatabaseMetadata._update_functions(fresh_metadata) on a cache with maps
\* fns, nds, ins and stale flag stale: the delta it returns and the cache
\* it leaves
update_functions(fns, nds, ins, stale, fresh) ==
    LET changed == ChangedFunctions(fns, fresh)
        delta == [a \in changed |-> fresh[a]]
        node_count == Cardinality(DOMAIN nds)
        function_count == Cardinality(DOMAIN fns)
        new_functions == update(fns, delta)
        merged == MergeDelta(delta, sorted(changed),
                             [nodes |-> nds, instructions |-> ins])
    IN [delta |-> delta,
        functions |-> new_functions,
        nodes |-> merged.nodes,
        instructions |-> merged.instructions,
        stale_lookup |->
            IF \/ node_count # Cardinality(DOMAIN merged.nodes)
               \/ function_count # Cardinality(DOMAIN new_functions)
            THEN TRUE ELSE stale]

\* self.nodes[self._node_addresses[node_index]] with Python's indexing: -1
\* is the last entry; NoObject stands for IndexError or KeyError
Probe(nds, naddrs, node_index) ==
    LET n == Len(naddrs)
        i == IF node_index < 0 THEN node_index + n + 1 ELSE node_index + 1
    IN IF i < 1 \/ i > n THEN NoObject
       ELSE IF naddrs[i] \notin DOMAIN nds THEN NoObject
       ELSE nds[naddrs[i]]

\* the memo check of get_node: address in self._last_node
MemoHit(memo, address) == memo # NoObject /\ NodeContains(memo, address)

\* a variant of PruneFunctions that deletes nothing
PruneFunctionsKeepsAll(fns, targets) == fns

\* the deletion pass of refresh(): the functions map without the entries
\* that are not in function_addresses
PruneFunctions(fns, targets) ==
    LET listed == {targets[i] : i \in 1..Len(targets)}
    IN [a \in DOMAIN fns \cap listed |-> fns[a]]

\* set(node_metadata.functions.viewkeys()) can be evaluated only on an
\* object with an attribute named functions; a NodeMetadata has function
\* (__init__) and no functions, so the read raises AttributeError
HasFunctionsAttribute(node) == "functions" \in DOMAIN node
OwnerAddresses(node) == DOMAIN node.functions

\* MetadataDelta._compute_node_delta(new_nodes, old_nodes)
compute_node_delta(new_nodes, old_nodes) ==
    LET removed == DOMAIN old_nodes \ DOMAIN new_nodes
        added == DOMAIN new_nodes \ DOMAIN old_nodes
        modified == {a \in DOMAIN new_nodes \cap DOMAIN old_nodes :
                        ~NodeEq(new_nodes[a], old_nodes[a])}
        read == {old_nodes[a] : a \in removed \cup modified}
                \cup {new_nodes[a] : a \in added \cup modified}
    IN IF \E node \in read : ~HasFunctionsAttribute(node)
       THEN [raised |-> "AttributeError"]
       ELSE [raised |-> None,
             nodes_added |-> added,
             nodes_removed |-> removed,
             nodes_modified |-> modified,
             dirty_functions |-> UNION {OwnerAddresses(node) : node \in read}]

\* MetadataDelta._compute_function_delta(new_functions, old_functions) over
\* the dirty set the node delta left
compute_function_delta(new_functions, old_functions, dirty) ==
    LET removed == {a \in dirty : a \notin DOMAIN new_functions}
        added == {a \in dirty \ removed : a \notin DOMAIN old_functions}
    IN [functions_removed |-> removed,
        functions_added |-> added,
        functions_modified |-> (dirty \ removed) \ added,
        dirty_functions |-> {}]

\* a variant of everything_added that takes the functions of the nodes for
\* the functions added
everything_added_by_nodes(new) ==
    [raised |-> None,
     nodes_added |-> DOMAIN new.nodes,
     nodes_removed |-> {},
     nodes_modified |-> {},
     functions_added |-> {new.nodes[a].function.address : a \in DOMAIN new.nodes},
     functions_removed |-> {},
     functions_modified |-> {},
     dirty_functions |-> {}]

\* a variant of everything_added that also takes every key of the new
\* metadata's maps for modified
everything_added_and_modified(new) ==
    [raised |-> None,
     nodes_added |-> DOMAIN new.nodes,
     nodes_removed |-> {},
     nodes_modified |-> DOMAIN new.nodes,
     functions_added |-> DOMAIN new.functions,
     functions_removed |-> {},
     functions_modified |-> DOMAIN new.functions,
     dirty_functions |-> {}]

\* if old_metadata is None: the six sets __init__ left empty, with
\* nodes_added and functions_added the keys of the new metadata's maps
everything_added(new) ==
    [raised |-> None,
     nodes_added |-> DOMAIN new.nodes,
     nodes_removed |-> {},
     nodes_modified |-> {},
     functions_added |-> DOMAIN new.functions,
     functions_removed |-> {},
     functions_modified |-> {},
     dirty_functions |-> {}]

\* MetadataDelta(new_metadata, old_metadata): the object constructed, or
\* the exception its constructor raised
MetadataDelta(new, old) ==
    IF old = NoObject
    THEN everything_added(new)
    ELSE LET nd == compute_node_delta(new.nodes, old.nodes) IN
         IF nd.raised # None THEN [raised |-> nd.raised]
         ELSE LET fd == compute_function_delta(new.functions, old.functions,
                                               nd.dirty_functions)
              IN [raised |-> None,
                  nodes_added |-> nd.nodes_added,
                  nodes_removed |-> nd.nodes_removed,
                  nodes_modified |-> nd.nodes_modified,
                  functions_added |-> fd.functions_added,
                  functions_removed |-> fd.functions_removed,
                  functions_modified |-> fd.functions_modified,
                  dirty_functions |-> fd.dirty_functions]

\* ------------------------------------------------------ the database user
\* a statement that reads the database is next for some thread
ProviderReadNext ==
    \/ \E t \in {1, 2} : cpc[t] = "r_prune"
    \/ \E w \in 1..MaxRefreshes :
          wpc[w] = "loop" /\ wloc[w].chunk * CHUNK_SIZE < Len(wloc[w].targets)

\* the user defines, undefines, renames or reanalyses one function
EditDatabase(variants) ==
    /\ edits < MaxEdits
    /\ \E B \in FuncAddrs, v \in variants :
          /\ v # database[B]
          /\ database' = [database EXCEPT ![B] = v]
    /\ edits' = edits + 1
    /\ ret' = NoReturns
    /\ UNCHANGED <<cache, flags, old_metadata, host, callers, workers>>

\* ------------------------------------------------------------- refresh()
\* threading.Thread.is_alive(): started and not yet finished
is_alive(w) == wpc[w] \notin {"unborn", "dead"}

InRefresh(t) == cpc[t] \in {"r_prune", "r_start"}

\* a variant of RefreshRejected in which the flag is reset before the
\* assertion is tested
RefreshRejectedAfterReset(t) ==
    /\ cpc[t] = "idle"
    /\ refresh_worker # NoWorker
    /\ stop_threads' = FALSE
    /\ ret' = [NoReturns EXCEPT ![t] = [op |-> "refresh", raised |-> "AssertionError"]]
    /\ UNCHANGED <<database, edits, cache, refresh_worker, old_metadata, host, cpc,
                   loc, workers>>

\* assert self._refresh_worker == None fails: AssertionError
RefreshRejected(t) ==
    /\ cpc[t] = "idle"
    /\ refresh_worker # NoWorker
    /\ ret' = [NoReturns EXCEPT ![t] = [op |-> "refresh", raised |-> "AssertionError"]]
    /\ UNCHANGED <<database, edits, cache, flags, old_metadata, host, cpc, loc, workers>>

\* the assertion holds; result_queue = Queue.Queue()
RefreshAccepted(t, targets) ==
    /\ cpc[t] = "idle"
    /\ refresh_worker = NoWorker
    /\ started + Cardinality({u \in Threads : InRefresh(u)}) < MaxRefreshes
    /\ cpc' = [cpc EXCEPT ![t] = IF targets.full THEN "r_prune" ELSE "r_start"]
    /\ loc' = [loc EXCEPT ![t] = [op |-> "refresh", targets |-> targets.list,
                                  full |-> targets.full, edits |-> 0,
                                  abort_requested |-> FALSE]]
    /\ ret' = NoReturns
    /\ UNCHANGED <<database, edits, cache, flags, old_metadata, host, workers>>

\* function_addresses is None: pull the list and drop the functions that
\* are no longer in it
RefreshPrune(t) ==
    /\ cpc[t] = "r_prune"
    /\ LET function_list == Functions(database)
           kept == PruneFunctions(functions, function_list)
       IN /\ functions' = kept
          /\ stale_lookup' = IF DOMAIN kept # DOMAIN functions
                             THEN TRUE ELSE stale_lookup
          /\ loc' = [loc EXCEPT ![t].targets = function_list,
                                 ![t].edits = edits]
    /\ cpc' = [cpc EXCEPT ![t] = "r_start"]
    /\ ret' = NoReturns
    /\ UNCHANGED <<database, edits, nodes, instructions, last_node,
                   node_addresses, function_addresses, flags, old_metadata, host, workers>>

\* self._stop_threads = False; the worker thread is created, stored in
\* self._refresh_worker and started; the queue is returned
RefreshStart(t) ==
    /\ cpc[t] = "r_start"
    /\ LET w == started + 1 IN
          /\ stop_threads' = FALSE
          /\ refresh_worker' = w
          /\ started' = w
          /\ wpc' = [wpc EXCEPT ![w] = "loop"]
          /\ wloc' = [wloc EXCEPT ![w].targets = loc[t].targets,
                                  ![w].full = loc[t].full,
                                  ![w].edits = loc[t].edits,
                                  ![w].abort_requested = loc[t].abort_requested]
          /\ ret' = [NoReturns EXCEPT ![t] =
                        [op |-> "refresh", raised |-> None, future |-> w]]
    /\ cpc' = [cpc EXCEPT ![t] = "idle"]
    /\ loc' = [loc EXCEPT ![t] = NoLocals]
    /\ UNCHANGED <<database, edits, cache, old_metadata, host, result_queue>>

\* -------------------------------------------------------- abort_refresh()
\* worker = self._refresh_worker; every refresh that was called and has not
\* ended notes that an abort_refresh() call began while it ran (a history
\* the code does not keep)
AbortCall(t) ==
    /\ cpc[t] = "idle"
    /\ cpc' = [cpc EXCEPT ![t] = "a_check"]
    /\ loc' = [u \in Threads |->
                  IF u = t
                  THEN [op |-> "abort_refresh", worker |-> refresh_worker]
                  ELSE IF loc[u].op = "refresh"
                       THEN [loc[u] EXCEPT !.abort_requested = TRUE]
                       ELSE loc[u]]
    /\ wloc' = [w \in Workers |->
                   IF wpc[w] \in {"unborn", "dead"}
                   THEN wloc[w]
                   ELSE [wloc[w] EXCEPT !.abort_requested = TRUE]]
    /\ ret' = NoReturns
    /\ UNCHANGED <<database, edits, cache, flags, old_metadata, host, wpc,
                   result_queue, started>>

\* worker and worker.is_alive()
WorkerAlive(worker) == worker # NoWorker /\ is_alive(worker)

\* a variant of AbortNothing that returns without resetting the flag
AbortNothingKeepsFlag(t) ==
    /\ cpc[t] = "a_check"
    /\ ~WorkerAlive(loc[t].worker)
    /\ cpc' = [cpc EXCEPT ![t] = "idle"]
    /\ loc' = [loc EXCEPT ![t] = NoLocals]
    /\ ret' = [NoReturns EXCEPT ![t] = [op |-> "abort_refresh", signalled |-> FALSE]]
    /\ UNCHANGED <<database, edits, cache, flags, old_metadata, host, workers>>

\* not (worker and worker.is_alive()): reset the flag and return
AbortNothing(t) ==
    /\ cpc[t] = "a_check"
    /\ ~WorkerAlive(loc[t].worker)
    /\ stop_threads' = FALSE
    /\ cpc' = [cpc EXCEPT ![t] = "idle"]
    /\ loc' = [loc EXCEPT ![t] = NoLocals]
    /\ ret' = [NoReturns EXCEPT ![t] = [op |-> "abort_refresh", signalled |-> FALSE]]
    /\ UNCHANGED <<database, edits, cache, refresh_worker, old_metadata, host, workers>>

\* the worker is alive: go on to signal it
AbortAlive(t) ==
    /\ cpc[t] = "a_check"
    /\ WorkerAlive(loc[t].worker)
    /\ cpc' = [cpc EXCEPT ![t] = "a_set"]
    /\ ret' = NoReturns
    /\ UNCHANGED <<database, edits, cache, flags, old_metadata, host, loc, workers>>

\* self._stop_threads = True
AbortSignal(t) ==
    /\ cpc[t] = "a_set"
    /\ stop_threads' = TRUE
    /\ cpc' = [cpc EXCEPT ![t] = "idle"]
    /\ loc' = [loc EXCEPT ![t] = NoLocals]
    /\ ret' = [NoReturns EXCEPT ![t] = [op |-> "abort_refresh", signalled |-> TRUE]]
    /\ UNCHANGED <<database, edits, cache, refresh_worker, old_metadata, host, workers>>

\* ------------------------------------------------------------- get_node()
\* if address in self._last_node: return self._last_node
GetNodeMemo(t, address) ==
    /\ cpc[t] = "idle"
    /\ MemoHit(last_node, address)
    /\ ret' = [NoReturns EXCEPT ![t] = [op |-> "get_node", address |-> address,
                                  node |-> last_node, rebuilt |-> FALSE]]
    /\ UNCHANGED <<database, edits, cache, flags, old_metadata, host, cpc, loc, workers>>

\* the memo misses and self._refresh_lookup() is entered: if not
\* self._stale_lookup: return False
GetNodeCall(t, address) ==
    /\ cpc[t] = "idle"
    /\ ~MemoHit(last_node, address)
    /\ cpc' = [cpc EXCEPT ![t] = IF stale_lookup THEN "g_nodes" ELSE "g_bisect"]
    /\ loc' = [loc EXCEPT ![t] = [op |-> "get_node", address |-> address,
                                  node_index |-> 0, rebuilt |-> FALSE]]
    /\ ret' = NoReturns
    /\ UNCHANGED <<database, edits, cache, flags, old_metadata, host, workers>>

\* self._node_addresses = sorted(self.nodes.keys())
GetNodeSortNodes(t) ==
    /\ cpc[t] = "g_nodes"
    /\ node_addresses' = sorted(DOMAIN nodes)
    /\ cpc' = [cpc EXCEPT ![t] = "g_funcs"]
    /\ ret' = NoReturns
    /\ UNCHANGED <<database, edits, functions, nodes, instructions, stale_lookup,
                   last_node, function_addresses, flags, old_metadata, host, loc,
                   workers>>

\* self._function_addresses = sorted(self.functions.keys())
GetNodeSortFunctions(t) ==
    /\ cpc[t] = "g_funcs"
    /\ function_addresses' = sorted(DOMAIN functions)
    /\ cpc' = [cpc EXCEPT ![t] = "g_clear"]
    /\ ret' = NoReturns
    /\ UNCHANGED <<database, edits, functions, nodes, instructions, stale_lookup,
                   last_node, node_addresses, flags, old_metadata, host, loc,
                   workers>>

\* self._stale_lookup = False; return True
GetNodeFresh(t) ==
    /\ cpc[t] = "g_clear"
    /\ stale_lookup' = FALSE
    /\ cpc' = [cpc EXCEPT ![t] = "g_bisect"]
    /\ loc' = [loc EXCEPT ![t].rebuilt = TRUE]
    /\ ret' = NoReturns
    /\ UNCHANGED <<database, edits, functions, nodes, instructions, last_node,
                   node_addresses, function_addresses, flags, old_metadata, host,
                   workers>>

\* node_index = bisect.bisect_right(self._node_addresses, address) - 1
GetNodeBisect(t) ==
    /\ cpc[t] = "g_bisect"
    /\ loc' = [loc EXCEPT ![t].node_index =
                  bisect_right(node_addresses, loc[t].address) - 1]
    /\ cpc' = [cpc EXCEPT ![t] = "g_probe"]
    /\ ret' = NoReturns
    /\ UNCHANGED <<database, edits, cache, flags, old_metadata, host, workers>>

\* the probed node contains the address: remember and return it
GetNodeFound(t) ==
    /\ cpc[t] = "g_probe"
    /\ LET node == Probe(nodes, node_addresses, loc[t].node_index) IN
          /\ node # NoObject
          /\ NodeContains(node, loc[t].address)
          /\ last_node' = node
          /\ ret' = [NoReturns EXCEPT ![t] =
                        [op |-> "get_node", address |-> loc[t].address,
                         node |-> node, rebuilt |-> loc[t].rebuilt]]
    /\ cpc' = [cpc EXCEPT ![t] = "idle"]
    /\ loc' = [loc EXCEPT ![t] = NoLocals]
    /\ UNCHANGED <<database, edits, functions, nodes, instructions, stale_lookup,
                   node_addresses, function_addresses, flags, old_metadata, host,
                   workers>>

\* a variant of GetNodeMissing that forgets the memoized node when it fails
GetNodeMissingClearsMemo(t) ==
    /\ cpc[t] = "g_probe"
    /\ LET node == Probe(nodes, node_addresses, loc[t].node_index) IN
          ~(node # NoObject /\ NodeContains(node, loc[t].address))
    /\ last_node' = NoObject
    /\ ret' = [NoReturns EXCEPT ![t] =
                  [op |-> "get_node", address |-> loc[t].address,
                   node |-> NoObject, rebuilt |-> loc[t].rebuilt]]
    /\ cpc' = [cpc EXCEPT ![t] = "idle"]
    /\ loc' = [loc EXCEPT ![t] = NoLocals]
    /\ UNCHANGED <<database, edits, functions, nodes, instructions, stale_lookup,
                   node_addresses, function_addresses, flags, old_metadata, host,
                   workers>>

\* IndexError, KeyError or a node that does not contain the address:
\* raise ValueError
GetNodeMissing(t) ==
    /\ cpc[t] = "g_probe"
    /\ LET node == Probe(nodes, node_addresses, loc[t].node_index) IN
          ~(node # NoObject /\ NodeContains(node, loc[t].address))
    /\ ret' = [NoReturns EXCEPT ![t] =
                  [op |-> "get_node", address |-> loc[t].address,
                   node |-> NoObject, rebuilt |-> loc[t].rebuilt]]
    /\ cpc' = [cpc EXCEPT ![t] = "idle"]
    /\ loc' = [loc EXCEPT ![t] = NoLocals]
    /\ UNCHANGED <<database, edits, cache, flags, old_metadata, host, workers>>

\* ------------------------------------------------ the worker: collection
\* a variant of Chunks in which the worker walks every function of the
\* database, whatever list refresh() was given
ChunksOfDatabase(w) == chunks(Functions(database), CHUNK_SIZE)

\* the chunk the worker is at
Chunks(w) == chunks(wloc[w].targets, CHUNK_SIZE)
Undefined(chunk) == \E i \in 1..Len(chunk) : database[chunk[i]] = 0

\* for addresses_chunk in chunks(...):
\*     fresh_metadata = collect_function_metadata(addresses_chunk)
\*     delta = self._update_functions(fresh_metadata), up to the count test
\* (the collection reads the database and writes only a local)
WorkerMerge(w) ==
    /\ wpc[w] = "loop"
    /\ wloc[w].chunk < Len(Chunks(w))
    /\ LET fresh_metadata == collect_function_metadata(
                                 database, Chunks(w)[wloc[w].chunk + 1])
           u == update_functions(functions, nodes, instructions, FALSE,
                                 fresh_metadata)
       IN /\ functions' = u.functions
          /\ nodes' = u.nodes
          /\ instructions' = u.instructions
          /\ wloc' = [wloc EXCEPT ![w].chunk = @ + 1,
                                  ![w].changed = u.stale_lookup]
    /\ wpc' = [wpc EXCEPT ![w] = "mark"]
    /\ ret' = NoReturns
    /\ UNCHANGED <<database, edits, stale_lookup, last_node, node_addresses,
                   function_addresses, flags, old_metadata, host, callers,
                   result_queue, started>>

\* the database fails the request for a function that is no longer
\* defined: the exception ends the thread
WorkerRaises(w) ==
    /\ wpc[w] = "loop"
    /\ wloc[w].chunk < Len(Chunks(w))
    /\ Undefined(Chunks(w)[wloc[w].chunk + 1])
    /\ wpc' = [wpc EXCEPT ![w] = "dead"]
    /\ wloc' = [wloc EXCEPT ![w] = NoWorkerLocals]
    /\ ret' = NoReturns
    /\ UNCHANGED <<database, edits, cache, flags, old_metadata, host, callers,
                   result_queue, started>>

\* the loop is exhausted: return True
WorkerCompleted(w) ==
    /\ wpc[w] = "loop"
    /\ wloc[w].chunk = Len(Chunks(w))
    /\ wloc' = [wloc EXCEPT ![w].completed = TRUE]
    /\ wpc' = [wpc EXCEPT ![w] = "lookup"]
    /\ ret' = NoReturns
    /\ UNCHANGED <<database, edits, cache, flags, old_metadata, host, callers,
                   result_queue, started>>

\* a variant of ProgressReport that reports every chunk as the last
ProgressReportsTotal(w) == <<Len(wloc[w].targets), Len(wloc[w].targets)>>

\* the (completed, total) pair the worker reports after the chunk it has
\* just merged: completed += len(addresses_chunk);
\* progress_callback(completed, len(function_addresses))
ProgressReport(w) ==
    LET reports == wloc[w].progress
        completed == IF reports = << >> THEN 0 ELSE reports[Len(reports)][1]
    IN <<completed + Len(Chunks(w)[wloc[w].chunk]), Len(wloc[w].targets)>>

\* if the counts changed: self._stale_lookup = True; return delta; then the
\* report to the progress callback of the refresh (wloc[w].progress is the
\* list of the pairs the callback has been called with)
WorkerMark(w) ==
    /\ wpc[w] = "mark"
    /\ stale_lookup' = IF wloc[w].changed THEN TRUE ELSE stale_lookup
    /\ wloc' = [wloc EXCEPT ![w].changed = FALSE,
                            ![w].progress = Append(@, ProgressReport(w))]
    /\ wpc' = [wpc EXCEPT ![w] = "check"]
    /\ ret' = NoReturns
    /\ UNCHANGED <<database, edits, functions, nodes, instructions, last_node,
                   node_addresses, function_addresses, flags, old_metadata, host,
                   callers, result_queue, started>>

\* a variant of WorkerBails in which the thread ends without a result
WorkerBailsWithoutResult(w) ==
    /\ wpc[w] = "check"
    /\ stop_threads
    /\ wloc' = [wloc EXCEPT ![w].completed = FALSE]
    /\ wpc' = [wpc EXCEPT ![w] = "clear"]
    /\ ret' = NoReturns
    /\ UNCHANGED <<database, edits, cache, flags, old_metadata, host, callers,
                   result_queue, started>>

\* if self._stop_threads: return False
WorkerBails(w) ==
    /\ wpc[w] = "check"
    /\ stop_threads
    /\ wloc' = [wloc EXCEPT ![w].completed = FALSE]
    /\ wpc' = [wpc EXCEPT ![w] = "lookup"]
    /\ ret' = NoReturns
    /\ UNCHANGED <<database, edits, cache, flags, old_metadata, host, callers,
                   result_queue, started>>

\* a variant of WorkerSleeps that goes on to the next chunk whatever the flag
WorkerSleepsThroughAbort(w) ==
    /\ wpc[w] = "check"
    /\ wpc' = [wpc EXCEPT ![w] = "loop"]
    /\ ret' = NoReturns
    /\ UNCHANGED <<database, edits, cache, flags, old_metadata, host, callers,
                   wloc, result_queue, started>>

\* no abort was requested: time.sleep(.0015) and on to the next chunk
WorkerSleeps(w) ==
    /\ wpc[w] = "check"
    /\ ~stop_threads
    /\ wpc' = [wpc EXCEPT ![w] = "loop"]
    /\ ret' = NoReturns
    /\ UNCHANGED <<database, edits, cache, flags, old_metadata, host, callers, wloc,
                   result_queue, started>>

\* --------------------------------------- the worker: the end of the thread
\* self._refresh_lookup(): if not self._stale_lookup: return False
WorkerLookup(w) ==
    /\ wpc[w] = "lookup"
    /\ wpc' = [wpc EXCEPT ![w] = IF stale_lookup THEN "l_nodes" ELSE "put"]
    /\ ret' = NoReturns
    /\ UNCHANGED <<database, edits, cache, flags, old_metadata, host, callers, wloc,
                   result_queue, started>>

\* self._node_addresses = sorted(self.nodes.keys())
WorkerSortNodes(w) ==
    /\ wpc[w] = "l_nodes"
    /\ node_addresses' = sorted(DOMAIN nodes)
    /\ wpc' = [wpc EXCEPT ![w] = "l_funcs"]
    /\ ret' = NoReturns
    /\ UNCHANGED <<database, edits, functions, nodes, instructions, stale_lookup,
                   last_node, function_addresses, flags, old_metadata, host, callers,
                   wloc, result_queue, started>>

\* self._function_addresses = sorted(self.functions.keys())
WorkerSortFunctions(w) ==
    /\ wpc[w] = "l_funcs"
    /\ function_addresses' = sorted(DOMAIN functions)
    /\ wpc' = [wpc EXCEPT ![w] = "l_clear"]
    /\ ret' = NoReturns
    /\ UNCHANGED <<database, edits, functions, nodes, instructions, stale_lookup,
                   last_node, node_addresses, flags, old_metadata, host, callers, wloc,
                   result_queue, started>>

\* self._stale_lookup = False
WorkerFresh(w) ==
    /\ wpc[w] = "l_clear"
    /\ stale_lookup' = FALSE
    /\ wpc' = [wpc EXCEPT ![w] = "put"]
    /\ ret' = NoReturns
    /\ UNCHANGED <<database, edits, functions, nodes, instructions, last_node,
                   node_addresses, function_addresses, flags, old_metadata, host,
                   callers, wloc, result_queue, started>>

\* a variant of WorkerPut that puts the DatabaseMetadata whatever the
\* collection returned
WorkerPutAlwaysSelf(w) ==
    /\ wpc[w] = "put"
    /\ result_queue' = [result_queue EXCEPT ![w] = Append(@, "self")]
    /\ wpc' = [wpc EXCEPT ![w] = "clear"]
    /\ ret' = NoReturns
    /\ UNCHANGED <<database, edits, cache, flags, old_metadata, host, callers, wloc,
                   started>>

\* result_queue.put(self) if completed else result_queue.put(None)
WorkerPut(w) ==
    /\ wpc[w] = "put"
    /\ result_queue' = [result_queue EXCEPT ![w] =
           Append(@, IF wloc[w].completed THEN "self" ELSE None)]
    /\ wpc' = [wpc EXCEPT ![w] = "clear"]
    /\ ret' = NoReturns
    /\ UNCHANGED <<database, edits, cache, flags, old_metadata, host, callers, wloc,
                   started>>

\* self._refresh_worker = None; return: the thread ends
WorkerExit(w) ==
    /\ wpc[w] = "clear"
    /\ refresh_worker' = NoWorker
    /\ wpc' = [wpc EXCEPT ![w] = "dead"]
    /\ wloc' = [wloc EXCEPT ![w] = NoWorkerLocals]
    /\ ret' = NoReturns
    /\ UNCHANGED <<database, edits, cache, stop_threads, old_metadata, host, callers,
                   result_queue, started>>

\* ------------------------------------- calls made by a sequential caller
\* a direct call of _update_functions(fresh_metadata), with the metadata
\* collected for the listed addresses; again tells that the call before it
\* was the same call with the same data
DirectMerge(t, addresses) ==
    /\ cpc[t] = "idle"
    /\ LET fresh_metadata == collect_function_metadata(database, addresses)
           u == update_functions(functions, nodes, instructions, stale_lookup,
                                 fresh_metadata)
       IN /\ functions' = u.functions
          /\ nodes' = u.nodes
          /\ instructions' = u.instructions
          /\ stale_lookup' = u.stale_lookup
          /\ ret' = [NoReturns EXCEPT ![t] =
                        [op |-> "update_functions", addresses |-> addresses,
                         again |-> /\ ret[t].op = "update_functions"
                                   /\ ret[t].addresses = addresses,
                         delta |-> u.delta]]
    /\ UNCHANGED <<database, edits, last_node, node_addresses,
                   function_addresses, flags, old_metadata, host, callers, workers>>

\* the current state of the cache as a DatabaseMetadata object
Snapshot == [functions |-> functions, nodes |-> nodes,
             instructions |-> instructions]

\* the caller keeps the DatabaseMetadata it has and goes on with a new one:
\* DatabaseMetadata()
NewDatabase ==
    /\ old_metadata = NoObject
    /\ old_metadata' = Snapshot
    /\ functions' = EmptyDict
    /\ nodes' = EmptyDict
    /\ instructions' = EmptyDict
    /\ stale_lookup' = FALSE
    /\ last_node' = NoObject
    /\ node_addresses' = << >>
    /\ function_addresses' = << >>
    /\ refresh_worker' = NoWorker
    /\ stop_threads' = FALSE
    /\ ret' = NoReturns
    /\ UNCHANGED <<database, edits, callers, workers, host>>

\* MetadataDelta(self, old_metadata) or MetadataDelta(self, None)
ComputeDelta(t, baseline) ==
    /\ cpc[t] = "idle"
    /\ baseline \in {NoObject, old_metadata}
    /\ ret' = [NoReturns EXCEPT ![t] =
                  [op |-> "MetadataDelta", baseline |-> baseline # NoObject,
                   delta |-> MetadataDelta(Snapshot, baseline)]]
    /\ UNCHANGED <<database, edits, cache, flags, old_metadata, host, callers, workers>>

\* --------------------------------------------------------- flatten_blocks()
\* a variant of ItemSize that takes every address for a byte address
ItemSizeOfByte(ins, address) == 1

\* self.instructions.get(address, 1)
ItemSize(ins, address) ==
    IF address \in DOMAIN ins THEN ins[address] ELSE 1

RECURSIVE FlattenRange(_, _, _, _)
\* while address < end_address: output.append(address); address += ...
FlattenRange(ins, address, end_address, output) ==
    IF address < end_address
    THEN FlattenRange(ins, address + ItemSize(ins, address), end_address,
                      Append(output, address))
    ELSE output

RECURSIVE FlattenLoop(_, _, _)
\* for address, size in basic_blocks: end_address = address + size; ...
FlattenLoop(ins, basic_blocks, output) ==
    IF basic_blocks = << >> THEN output
    ELSE LET address == Head(basic_blocks)[1]
             size == Head(basic_blocks)[2]
         IN FlattenLoop(ins, Tail(basic_blocks),
                        FlattenRange(ins, address, address + size, output))

\* DatabaseMetadata.flatten_blocks(basic_blocks) on a cache whose
\* instructions map is ins
flatten_blocks(ins, basic_blocks) == FlattenLoop(ins, basic_blocks, << >>)

\* a call of flatten_blocks(basic_blocks)
FlattenBlocks(t, basic_blocks) ==
    /\ cpc[t] = "idle"
    /\ ret' = [NoReturns EXCEPT ![t] =
                  [op |-> "flatten_blocks", basic_blocks |-> basic_blocks,
                   output |-> flatten_blocks(instructions, basic_blocks)]]
    /\ UNCHANGED <<database, edits, cache, flags, old_metadata, host, callers, workers>>

\* --------------------------------------------------------- specifications
\* the addresses the threaded specifications look up (the first slot and
\* the start of the second), the edits they make (a function is defined,
\* undefined, or split in two blocks) and the refreshes they ask for (of
\* everything, or of the listed slots)
ProbedAddrs == 0..FuncSpan
ThreadedEdits == {0, 1, 3}
ThreadedTargets ==
    {[full |-> TRUE, list |-> << >>],
     [full |-> FALSE, list |-> sorted(FuncAddrs)]}

Call(t) ==
    \/ RefreshRejected(t)
    \/ \E targets \in ThreadedTargets : RefreshAccepted(t, targets)
    \/ AbortCall(t)
    \/ \E address \in ProbedAddrs : GetNodeMemo(t, address)
    \/ \E address \in ProbedAddrs : GetNodeCall(t, address)

Continue(t) ==
    \/ RefreshPrune(t)
    \/ RefreshStart(t)
    \/ AbortNothing(t)
    \/ AbortAlive(t)
    \/ AbortSignal(t)
    \/ GetNodeSortNodes(t)
    \/ GetNodeSortFunctions(t)
    \/ GetNodeFresh(t)
    \/ GetNodeBisect(t)
    \/ GetNodeFound(t)
    \/ GetNodeMissing(t)

WorkerStep(w) ==
    \/ WorkerRaises(w)
    \/ WorkerCompleted(w)
    \/ WorkerMerge(w)
    \/ WorkerMark(w)
    \/ WorkerBails(w)
    \/ WorkerSleeps(w)
    \/ WorkerLookup(w)
    \/ WorkerSortNodes(w)
    \/ WorkerSortFunctions(w)
    \/ WorkerFresh(w)
    \/ WorkerPut(w)
    \/ WorkerExit(w)

\* one caller thread (the host's main thread) and the refresh workers it
\* starts, interleaved statement by statement
Next ==
    \/ ProviderReadNext /\ EditDatabase(ThreadedEdits)
    \/ Call(1)
    \/ Continue(1)
    \/ \E w \in Workers : WorkerStep(w)

Spec == Init /\ [][Next]_vars

\* a step of worker w when the database answers every request
WorkerRuns(w) ==
    \/ WorkerCompleted(w)
    \/ WorkerMerge(w)
    \/ WorkerMark(w)
    \/ WorkerBails(w)
    \/ WorkerSleeps(w)
    \/ WorkerLookup(w)
    \/ WorkerSortNodes(w)
    \/ WorkerSortFunctions(w)
    \/ WorkerFresh(w)
    \/ WorkerPut(w)
    \/ WorkerExit(w)

\* a caller thread that calls refresh() and abort_refresh() and the workers
\* it starts, interleaved statement by statement, with a database that
\* answers every request and a scheduler that keeps running a started thread
LiveNext ==
    \/ ProviderReadNext /\ EditDatabase(ThreadedEdits)
    \/ RefreshRejected(1)
    \/ \E targets \in ThreadedTargets : RefreshAccepted(1, targets)
    \/ RefreshPrune(1)
    \/ RefreshStart(1)
    \/ AbortCall(1)
    \/ AbortNothing(1)
    \/ AbortAlive(1)
    \/ AbortSignal(1)
    \/ \E w \in Workers : WorkerRuns(w)

\* worker w has been started and has not ended: one of its steps is enabled
Running(w) == wpc[w] \notin {"unborn", "dead"}

\* a step in which worker w executes a statement
Advances(w) == Running(w) /\ wpc'[w] # wpc[w]

\* weak fairness of the steps of each worker: a worker that stays running
\* goes on executing statements
SpecLive ==
    /\ Init /\ [][LiveNext]_vars
    /\ \A w \in Workers : ([]<>~Running(w)) \/ []<><<Advances(w)>>_vars

\* two caller threads that call refresh() (of everything) and
\* abort_refresh(), and the workers they start, interleaved statement by
\* statement
CallersNext ==
    \/ \E t \in Threads :
          \/ RefreshRejected(t)
          \/ RefreshAccepted(t, [full |-> TRUE, list |-> << >>])
          \/ RefreshPrune(t)
          \/ RefreshStart(t)
          \/ AbortCall(t)
          \/ AbortNothing(t)
          \/ AbortAlive(t)
          \/ AbortSignal(t)
    \/ \E w \in Workers :
          \/ WorkerMerge(w)
          \/ WorkerCompleted(w)
          \/ WorkerMark(w)
          \/ WorkerBails(w)
          \/ WorkerSleeps(w)
          \/ WorkerLookup(w)
          \/ WorkerSortNodes(w)
          \/ WorkerSortFunctions(w)
          \/ WorkerFresh(w)
          \/ WorkerPut(w)
          \/ WorkerExit(w)

SpecCallers == Init /\ [][CallersNext]_vars

\* the caller is between calls and no worker thread is running
SeqIdle == cpc[1] = "idle" /\ \A w \in Workers : ~is_alive(w)

\* one caller that makes one call at a time and waits for the future of a
\* refresh before its next call
SeqNext ==
    \/ SeqIdle /\ EditDatabase(Variants)
    \/ SeqIdle /\ RefreshRejected(1)
    \/ SeqIdle /\ \E targets \in TargetLists : RefreshAccepted(1, targets)
    \/ SeqIdle /\ AbortCall(1)
    \/ SeqIdle /\ \E address \in Addrs : GetNodeMemo(1, address)
    \/ SeqIdle /\ \E address \in Addrs : GetNodeCall(1, address)
    \/ SeqIdle /\ \E S \in SUBSET FuncAddrs : DirectMerge(1, sorted(S))
    \/ RefreshPrune(1)
    \/ RefreshStart(1)
    \/ AbortNothing(1)
    \/ GetNodeSortNodes(1)
    \/ GetNodeSortFunctions(1)
    \/ GetNodeFresh(1)
    \/ GetNodeBisect(1)
    \/ GetNodeFound(1)
    \/ GetNodeMissing(1)
    \/ \E w \in Workers :
          \/ WorkerMerge(w)
          \/ WorkerRaises(w)
          \/ WorkerCompleted(w)
          \/ WorkerMark(w)
          \/ WorkerSleeps(w)
          \/ WorkerLookup(w)
          \/ WorkerSortNodes(w)
          \/ WorkerSortFunctions(w)
          \/ WorkerFresh(w)
          \/ WorkerPut(w)
          \/ WorkerExit(w)

SpecSeq == Init /\ [][SeqNext]_vars

\* DatabaseMetadata objects filled by direct merges, and the deltas between
\* them
DeltaNext ==
    \/ EditDatabase(Variants)
    \/ \E S \in SUBSET FuncAddrs : DirectMerge(1, sorted(S))
    \/ NewDatabase
    \/ \E baseline \in {NoObject, old_metadata} : ComputeDelta(1, baseline)

SpecDelta == Init /\ [][DeltaNext]_vars

\* the instruction maps and block lists flatten_blocks is tried on: entries
\* of 1, 2 or 4 bytes at addresses from 0x10, blocks of 0 to 6 bytes
MaxBlocks == 2
FlattenAddrs == 16..19
FlattenCaches ==
    UNION {[D -> {1, 2, 4}] : D \in SUBSET FlattenAddrs}
FlattenBlock == (16..18) \X {0, 2, 3, 6}
FlattenInputs ==
    UNION {[1..n -> FlattenBlock] : n \in 0..MaxBlocks}

\* a DatabaseMetadata whose instructions map is any of FlattenCaches
FlattenInit ==
    /\ database \in [FuncAddrs -> {0}]
    /\ edits = 0
    /\ functions = EmptyDict
    /\ nodes = EmptyDict
    /\ instructions \in FlattenCaches
    /\ stale_lookup = FALSE
    /\ last_node = NoObject
    /\ node_addresses = << >>
    /\ function_addresses = << >>
    /\ refresh_worker = NoWorker
    /\ stop_threads = FALSE
    /\ old_metadata = NoObject
    /\ cpc = [t \in Threads |-> "idle"]
    /\ loc = [t \in Threads |-> NoLocals]
    /\ ret = [t \in Threads |-> NoReturn]
    /\ wpc = [w \in Workers |-> "unborn"]
    /\ wloc = [w \in Workers |-> NoWorkerLocals]
    /\ result_queue = [w \in Workers |-> << >>]
    /\ started = 0
    /\ lock = "unlocked"
    /\ now = 0

FlattenNext == \E basic_blocks \in FlattenInputs : FlattenBlocks(1, basic_blocks)

SpecFlatten == FlattenInit /\ [][FlattenNext]_vars

\* ------------------------------------- flatten_blocks(), loop by loop
\* the blocks the stepped flatten_blocks is tried on: a block of negative
\* size, an empty one, and blocks of 3 and 6 bytes
SteppedBlock == {16, 17} \X {-1, 0, 3, 6}
SteppedInputs ==
    UNION {[1..n -> SteppedBlock] : n \in 0..MaxBlocks}

\* output = [] (the one call of a behaviour); block_start tells where in
\* output the addresses of the block at hand begin
FlattenCall(t, basic_blocks) ==
    /\ cpc[t] = "idle"
    /\ ret[t] = NoReturn
    /\ cpc' = [cpc EXCEPT ![t] = "f_for"]
    /\ loc' = [loc EXCEPT ![t] =
                  [op |-> "flatten_blocks", basic_blocks |-> basic_blocks,
                   index |-> 0, address |-> 0, end_address |-> 0,
                   output |-> << >>, block_start |-> 0]]
    /\ ret' = NoReturns
    /\ UNCHANGED <<database, edits, cache, flags, old_metadata, host, workers>>

\* for address, size in basic_blocks: end_address = address + size
FlattenFor(t) ==
    /\ cpc[t] = "f_for"
    /\ loc[t].index < Len(loc[t].basic_blocks)
    /\ LET block == loc[t].basic_blocks[loc[t].index + 1] IN
          loc' = [loc EXCEPT ![t].index = @ + 1,
                             ![t].address = block[1],
                             ![t].end_address = block[1] + block[2],
                             ![t].block_start = Len(loc[t].output)]
    /\ cpc' = [cpc EXCEPT ![t] = "f_while"]
    /\ ret' = NoReturns
    /\ UNCHANGED <<database, edits, cache, flags, old_metadata, host, workers>>

\* a variant of FlattenWhile that runs the body once before the first test
FlattenDoWhile(t) ==
    /\ cpc[t] = "f_while"
    /\ \/ loc[t].address < loc[t].end_address
       \/ Len(loc[t].output) = loc[t].block_start
    /\ loc' = [loc EXCEPT ![t].output = Append(@, loc[t].address),
                          ![t].address = @ + ItemSize(instructions, loc[t].address)]
    /\ ret' = NoReturns
    /\ UNCHANGED <<database, edits, cache, flags, old_metadata, host, cpc, workers>>

\* while address < end_address: output.append(address)
\*     address += self.instructions.get(address, 1)
FlattenWhile(t) ==
    /\ cpc[t] = "f_while"
    /\ loc[t].address < loc[t].end_address
    /\ loc' = [loc EXCEPT ![t].output = Append(@, loc[t].address),
                          ![t].address = @ + ItemSize(instructions, loc[t].address)]
    /\ ret' = NoReturns
    /\ UNCHANGED <<database, edits, cache, flags, old_metadata, host, cpc, workers>>

\* the while test fails: back to the for statement
FlattenEndWhile(t) ==
    /\ cpc[t] = "f_while"
    /\ ~(loc[t].address < loc[t].end_address)
    /\ cpc' = [cpc EXCEPT ![t] = "f_for"]
    /\ ret' = NoReturns
    /\ UNCHANGED <<database, edits, cache, flags, old_metadata, host, loc, workers>>

\* the list is exhausted: return output
FlattenReturn(t) ==
    /\ cpc[t] = "f_for"
    /\ loc[t].index = Len(loc[t].basic_blocks)
    /\ ret' = [NoReturns EXCEPT ![t] =
                  [op |-> "flatten_blocks", basic_blocks |-> loc[t].basic_blocks,
                   output |-> loc[t].output]]
    /\ cpc' = [cpc EXCEPT ![t] = "idle"]
    /\ loc' = [loc EXCEPT ![t] = NoLocals]
    /\ UNCHANGED <<database, edits, cache, flags, old_metadata, host, workers>>

\* a statement of flatten_blocks() by caller t
FlattenStep(t) ==
    \/ FlattenFor(t)
    \/ FlattenWhile(t)
    \/ FlattenEndWhile(t)
    \/ FlattenReturn(t)

SteppedNext ==
    \/ \E basic_blocks \in SteppedInputs : FlattenCall(1, basic_blocks)
    \/ FlattenStep(1)

\* the caller's thread keeps running until the call returns
SpecFlattenSteps ==
    FlattenInit /\ [][SteppedNext]_vars /\ WF_vars(FlattenStep(1))

\* ------------------------------------------------------------ the readers
\* the block lists the readers flatten: none, or one block at the start of
\* a function slot, empty or of three bytes
ReaderBlocks ==
    {<< >>} \cup {<<<<B, n>>>> : B \in FuncAddrs, n \in {0, 3}}

\* a sequential caller that merges fresh metadata into the cache and reads
\* it with get_node() and flatten_blocks()
ReadersNext ==
    \/ cpc[1] = "idle" /\ EditDatabase(Variants)
    \/ \E S \in SUBSET FuncAddrs : DirectMerge(1, sorted(S))
    \/ \E address \in Addrs : GetNodeMemo(1, address)
    \/ \E address \in Addrs : GetNodeCall(1, address)
    \/ \E basic_blocks \in ReaderBlocks : FlattenBlocks(1, basic_blocks)
    \/ GetNodeSortNodes(1)
    \/ GetNodeSortFunctions(1)
    \/ GetNodeFresh(1)
    \/ GetNodeBisect(1)
    \/ GetNodeFound(1)
    \/ GetNodeMissing(1)

SpecReaders == Init /\ [][ReadersNext]_vars

\* -------------------------------------------------------------- await_lock()
\* interval = 0.02 and timeout = 60.0 seconds, in hundredths of a second
interval == 2
timeout == 6000

\* elapsed = 0; interval = 0.02; timeout = 60.0
\* end_time = time.time() + timeout
\* (the one call of a behaviour)
AwaitLockCall(t) ==
    /\ cpc[t] = "idle"
    /\ ret[t] = NoReturn
    /\ cpc' = [cpc EXCEPT ![t] = "k_test"]
    /\ loc' = [loc EXCEPT ![t] = [op |-> "await_lock", end_time |-> now + timeout,
                                  attempts |-> 0]]
    /\ ret' = NoReturns
    /\ UNCHANGED <<database, edits, cache, flags, old_metadata, workers, host>>

\* while time.time() < end_time: the loop goes on
AwaitLockInTime(t) ==
    /\ cpc[t] = "k_test"
    /\ now < loc[t].end_time
    /\ cpc' = [cpc EXCEPT ![t] = "k_acquire"]
    /\ UNCHANGED <<database, edits, cache, flags, old_metadata, loc, ret,
                   workers, host>>

\* the loop test fails:
\* raise RuntimeError("Failed to acquire lock after %f seconds!" % timeout)
AwaitLockTimedOut(t) ==
    /\ cpc[t] = "k_test"
    /\ ~(now < loc[t].end_time)
    /\ ret' = [NoReturns EXCEPT ![t] =
                  [op |-> "await_lock", raised |-> "RuntimeError",
                   end_time |-> loc[t].end_time, attempts |-> loc[t].attempts]]
    /\ cpc' = [cpc EXCEPT ![t] = "idle"]
    /\ loc' = [loc EXCEPT ![t] = NoLocals]
    /\ UNCHANGED <<database, edits, cache, flags, old_metadata, workers, host>>

\* a variant of AwaitLockAcquired that returns without taking the lock
AwaitLockReturnsUnlocked(t) ==
    /\ cpc[t] = "k_acquire"
    /\ lock = "unlocked"
    /\ ret' = [NoReturns EXCEPT ![t] =
                  [op |-> "await_lock", raised |-> None,
                   end_time |-> loc[t].end_time,
                   attempts |-> loc[t].attempts + 1]]
    /\ cpc' = [cpc EXCEPT ![t] = "idle"]
    /\ loc' = [loc EXCEPT ![t] = NoLocals]
    /\ UNCHANGED <<database, edits, cache, flags, old_metadata, workers, host>>

\* if lock.acquire(False): return, the lock being free
AwaitLockAcquired(t) ==
    /\ cpc[t] = "k_acquire"
    /\ lock = "unlocked"
    /\ lock' = "caller"
    /\ ret' = [NoReturns EXCEPT ![t] =
                  [op |-> "await_lock", raised |-> None,
                   end_time |-> loc[t].end_time,
                   attempts |-> loc[t].attempts + 1]]
    /\ cpc' = [cpc EXCEPT ![t] = "idle"]
    /\ loc' = [loc EXCEPT ![t] = NoLocals]
    /\ UNCHANGED <<database, edits, cache, flags, old_metadata, workers, now>>

\* lock.acquire(False) returns False, the lock being held
AwaitLockBusy(t) ==
    /\ cpc[t] = "k_acquire"
    /\ lock # "unlocked"
    /\ cpc' = [cpc EXCEPT ![t] = "k_sleep"]
    /\ loc' = [loc EXCEPT ![t].attempts = 1]
    /\ UNCHANGED <<database, edits, cache, flags, old_metadata, ret, workers,
                   host>>

\* time.sleep(interval), which takes the interval or longer, and
\* flush_ida_sync_requests() on the main thread
AwaitLockSleep(t, slept) ==
    /\ cpc[t] = "k_sleep"
    /\ slept >= interval
    /\ now' = now + slept
    /\ cpc' = [cpc EXCEPT ![t] = "k_test"]
    /\ UNCHANGED <<database, edits, cache, flags, old_metadata, loc, ret,
                   workers, lock>>

\* the steps of a thread inside await_lock
AwaitLockStep(t) ==
    \/ AwaitLockInTime(t)
    \/ AwaitLockTimedOut(t)
    \/ AwaitLockAcquired(t)
    \/ AwaitLockBusy(t)
    \/ \E slept \in {interval, 2 * interval} : AwaitLockSleep(t, slept)

\* another thread takes the lock or gives it back
OtherAcquires ==
    /\ lock = "unlocked"
    /\ lock' = "other"
    /\ UNCHANGED <<database, edits, cache, flags, old_metadata, callers, ret,
                   workers, now>>

OtherReleases ==
    /\ lock = "other"
    /\ lock' = "unlocked"
    /\ UNCHANGED <<database, edits, cache, flags, old_metadata, callers, ret,
                   workers, now>>

\* the thread in await_lock is not scheduled for the length of the timeout
Descheduled(t) ==
    /\ cpc[t] \in {"k_test", "k_acquire", "k_sleep"}
    /\ now < loc[t].end_time
    /\ now' = now + timeout
    /\ UNCHANGED <<database, edits, cache, flags, old_metadata, callers, ret,
                   workers, lock>>

\* one thread that calls await_lock(lock) on a lock another thread takes and
\* releases at will
LockNext ==
    \/ AwaitLockCall(1)
    \/ AwaitLockStep(1)
    \/ OtherAcquires
    \/ OtherReleases
    \/ Descheduled(1)

\* the thread that called await_lock keeps running
SpecLock == Init /\ [][LockNext]_vars /\ WF_vars(AwaitLockStep(1))

\* ------------------------------------------------- entity construction
\* the longest item the database reports, in bytes
MaxItemSize == 2

\* what idaapi.get_item_end may answer over the addresses of one slot: the
\* end of an item of 1..MaxItemSize bytes at each address
ItemEnds ==
    {item_end \in [0..(FuncSpan - 1) -> 1..(FuncSpan - 1 + MaxItemSize)] :
        \A a \in 0..(FuncSpan - 1) : item_end[a] \in (a + 1)..(a + MaxItemSize)}

\* the blocks a flowchart over one slot may hold, empty ones included, and
\* the flowcharts of up to MaxBlocks blocks
SlotBlocks == {b \in (0..FuncSpan) \X (0..FuncSpan) : b[1] <= b[2]}
SlotFlowcharts == UNION {[1..n -> SlotBlocks] : n \in 0..MaxBlocks}

\* NodeMetadata(node) for a block of the flowchart
BuildNode(t, node, item_end) ==
    /\ cpc[t] = "idle"
    /\ ret' = [NoReturns EXCEPT ![t] =
                  [op |-> "NodeMetadata", startEA |-> node[1], endEA |-> node[2],
                   node |-> NodeMetadata(node[1], node[2], item_end, 0, NoObject)]]
    /\ UNCHANGED <<database, edits, cache, flags, old_metadata, host, callers,
                   workers>>

\* FunctionMetadata(address) for a function with the given flowchart
BuildFunctionMetadata(t, address, flow, item_end) ==
    /\ cpc[t] = "idle"
    /\ ret' = [NoReturns EXCEPT ![t] =
                  [op |-> "FunctionMetadata", flowchart |-> flow,
                   function |-> FunctionMetadata(address, "a", flow, item_end)]]
    /\ UNCHANGED <<database, edits, cache, flags, old_metadata, host, callers,
                   workers>>

\* one entity, built for any block, flowchart and item layout of a slot
EntitiesNext ==
    \/ \E node \in SlotBlocks : \E item_end \in ItemEnds :
          ret[1] = NoReturn /\ node[1] < node[2] /\ BuildNode(1, node, item_end)
    \/ \E flow \in SlotFlowcharts : \E item_end \in ItemEnds :
          ret[1] = NoReturn /\ BuildFunctionMetadata(1, 0, flow, item_end)

SpecEntities == Init /\ [][EntitiesNext]_vars

\* ------------------------------------------------------------ the claims
\* the nodes held in a nodes map
Values(d) == {d[k] : k \in DOMAIN d}

\* C1 (as claimed): when get_node(a) has returned or raised, every node N of
\* the nodes map with N.address <= a < N.address + N.size is the node it
\* returned.
C1_LookupReturnsContainingNode ==
    \A t \in Threads :
        ret[t].op = "get_node" =>
            \A N \in Values(nodes) :
                NodeContains(N, ret[t].address) => ret[t].node = N

\* C2 (as claimed): when get_node(a) has returned or raised and no node of
\* the nodes map contains a, it raised ValueError and returned no node.
C2_LookupOutsideEveryNodeFails ==
    \A t \in Threads :
        (/\ ret[t].op = "get_node"
         /\ \A N \in Values(nodes) : ~NodeContains(N, ret[t].address))
        => ret[t].node = NoObject

\* a step in which caller t calls refresh()
RefreshCalled(t) ==
    \/ RefreshRejected(t)
    \/ \E targets \in TargetLists : RefreshAccepted(t, targets)

\* C3: a refresh() called while the worker of the previous refresh is still
\* alive fails with AssertionError and changes no field of the cache, no
\* flag, no worker and no queue.
C3_RefreshWhileRefreshingFails ==
    [][\A t \in Threads :
          (RefreshCalled(t) /\ \E w \in Workers : is_alive(w)) =>
              /\ ret'[t] = [op |-> "refresh", raised |-> "AssertionError"]
              /\ UNCHANGED <<cache, flags, cpc, loc, workers>>]_vars

\* a refresh() was refused while a worker was collecting
C3_Witness ==
    /\ ret[1] = [op |-> "refresh", raised |-> "AssertionError"]
    /\ \E w \in Workers : wpc[w] \in {"loop", "mark", "check"}

\* the workers that are in the collect / merge loop
InLoop == {w \in Workers : wpc[w] \in {"loop", "mark", "check"}}

\* C4 (as claimed): at most one worker is in the collect / merge loop at
\* any time, whatever the interleaving of the callers of refresh() and
\* abort_refresh() and of the workers.
C4_OneWorkerInLoop == Cardinality(InLoop) <= 1

\* the index agrees with the maps: not stale, and both lists are the sorted
\* keys
IndexConsistent ==
    /\ ~stale_lookup
    /\ node_addresses = sorted(DOMAIN nodes)
    /\ function_addresses = sorted(DOMAIN functions)

\* C5 (as claimed): when a worker that completed puts the DatabaseMetadata
\* in the queue, the index is not stale and node_addresses and
\* function_addresses are the sorted keys of nodes and functions, also when
\* get_node() calls ran during the refresh.
C5_DeliveredIndexConsistent ==
    [][\A w \in Workers :
          (WorkerPut(w) /\ wloc[w].completed) => IndexConsistent']_vars

\* C6: a worker leaves the loop either at a chunk-boundary check that finds
\* the flag set, and then puts None, or after the last chunk was merged
\* with no check having found the flag set, and then puts the
\* DatabaseMetadata; it puts exactly one value.
C6_FutureValue ==
    /\ [][\A w \in Workers :
             /\ (wpc[w] = "check" /\ wpc'[w] = "lookup") =>
                    stop_threads /\ ~wloc'[w].completed
             /\ (wpc[w] = "check" /\ wpc'[w] = "loop") => ~stop_threads
             /\ (wpc[w] # "lookup" /\ wpc'[w] = "lookup") =>
                    \/ wpc[w] = "check"
                    \/ /\ wpc[w] = "loop"
                       /\ wloc[w].chunk = Len(Chunks(w))
                       /\ wloc'[w].completed
             /\ (wpc[w] \in {"lookup", "l_nodes", "l_funcs", "l_clear", "put"})
                    => wloc'[w].completed = wloc[w].completed]_vars
    /\ [](\A w \in Workers :
             /\ Len(result_queue[w]) <= 1
             /\ wpc[w] = "clear" =>
                    /\ Len(result_queue[w]) = 1
                    /\ result_queue[w][1] = "self" <=> wloc[w].completed
                    /\ result_queue[w][1] = None <=> ~wloc[w].completed)

\* an aborted worker has put None with a chunk still to collect
C6_Witness ==
    \E w \in Workers :
        /\ result_queue[w] = <<None>>
        /\ wpc[w] = "clear"
        /\ wloc[w].chunk < Len(Chunks(w))

\* a step of abort_refresh() by caller t
AbortStep(t) ==
    AbortCall(t) \/ AbortNothing(t) \/ AbortAlive(t) \/ AbortSignal(t)

\* C7: abort_refresh() sets the flag when the worker it read from the slot
\* is alive and clears the flag when there is none or it is dead; no step
\* of it writes functions, nodes, instructions or the worker slot, and none
\* waits for the worker.
C7_AbortOnlyTouchesFlag ==
    /\ [][\A t \in Threads :
             /\ AbortStep(t) =>
                    UNCHANGED <<functions, nodes, instructions, refresh_worker>>
             /\ (cpc[t] = "a_check" /\ cpc'[t] = "a_set") =>
                    /\ WorkerAlive(loc[t].worker)
                    /\ loc[t].worker = refresh_worker
                    /\ UNCHANGED stop_threads
             /\ (cpc[t] = "a_set" /\ cpc'[t] = "idle") =>
                    stop_threads' /\ ret'[t].signalled
             /\ (cpc[t] = "a_check" /\ cpc'[t] = "idle") =>
                    /\ \A w \in Workers : ~is_alive(w)
                    /\ ~stop_threads'
                    /\ ~ret'[t].signalled]_vars
    /\ [](\A t \in Threads :
             /\ cpc[t] = "a_check" => ENABLED (AbortNothing(t) \/ AbortAlive(t))
             /\ cpc[t] = "a_set" => ENABLED AbortSignal(t))

\* abort_refresh() has just cleared a flag that a finished refresh had left
\* set
C7_Witness ==
    /\ ret[1] = [op |-> "abort_refresh", signalled |-> FALSE]
    /\ \E w \in Workers : wpc[w] = "dead" /\ result_queue[w] = <<None>>

\* C8: the deletion pass of a full refresh keeps exactly the cached
\* functions whose address the database lists, marks the index stale when
\* it dropped one, and runs before the worker exists; when the worker then
\* completes with no edit of the database since the list was pulled, the
\* keys of functions are exactly the listed addresses.
C8_FullRefreshPrunes ==
    /\ [][\A t \in Threads :
             /\ RefreshPrune(t) =>
                    LET listed == Values(Functions(database)) IN
                    /\ DOMAIN functions' = DOMAIN functions \cap listed
                    /\ \A a \in DOMAIN functions' : functions'[a] = functions[a]
                    /\ stale_lookup' =
                           (stale_lookup \/ DOMAIN functions' # DOMAIN functions)
                    /\ UNCHANGED <<wpc, started, refresh_worker>>
             /\ (RefreshStart(t) /\ loc[t].full) =>
                    DOMAIN functions \subseteq Values(loc[t].targets)]_vars
    /\ [](\A w \in Workers :
             (/\ wpc[w] = "clear"
              /\ wloc[w].completed
              /\ wloc[w].full
              /\ wloc[w].edits = edits)
             => /\ DOMAIN functions = Values(wloc[w].targets)
                /\ wloc[w].targets = Functions(database))

\* a full refresh has completed after its deletion pass dropped a function:
\* nodes of the dropped function are still in the nodes map
C8_Witness ==
    \E w \in Workers :
        /\ wpc[w] = "clear"
        /\ wloc[w].completed
        /\ wloc[w].full
        /\ wloc[w].edits = edits
        /\ wloc[w].targets # << >>
        /\ \E a \in DOMAIN nodes :
              nodes[a].function.address \notin DOMAIN functions

\* C9: a second _update_functions(F) with the data of the first returns an
\* empty delta and leaves functions, nodes and instructions as the first
\* left them.
C9_MergeIdempotent ==
    /\ [](\A t \in Threads :
             (ret[t].op = "update_functions" /\ ret[t].again) =>
                 ret[t].delta = EmptyDict)
    /\ [][\A t \in Threads :
             (ret'[t].op = "update_functions" /\ ret'[t].again) =>
                 UNCHANGED <<functions, nodes, instructions>>]_vars

\* a function with nodes was merged a second time with the same data
C9_Witness ==
    /\ ret[1].op = "update_functions"
    /\ ret[1].again
    /\ \E a \in Values(ret[1].addresses) : functions[a].node_count > 0

\* C10: MetadataDelta(S, None) has nodes_added the keys of S.nodes,
\* functions_added the keys of S.functions, and the four other sets empty.
C10_DeltaWithoutBaseline ==
    \A t \in Threads :
        (ret[t].op = "MetadataDelta" /\ ~ret[t].baseline) =>
            /\ ret[t].delta.raised = None
            /\ ret[t].delta.nodes_added = DOMAIN nodes
            /\ ret[t].delta.functions_added = DOMAIN functions
            /\ ret[t].delta.nodes_removed = {}
            /\ ret[t].delta.nodes_modified = {}
            /\ ret[t].delta.functions_removed = {}
            /\ ret[t].delta.functions_modified = {}

\* a delta without baseline was computed for a snapshot whose nodes map
\* holds a node that its function no longer has
C10_Witness ==
    /\ ret[1].op = "MetadataDelta"
    /\ ~ret[1].baseline
    /\ ret[1].delta.functions_added # {}
    /\ \E a \in DOMAIN nodes :
          a \notin DOMAIN functions[nodes[a].function.address].nodes

\* a dict without the entries at the keys in gone
Without(d, gone) == [k \in DOMAIN d \ gone |-> d[k]]

\* snapshot B is snapshot A with function f, a function that has nodes, and
\* all of f's nodes removed
PureRemoval(B, A, f) ==
    /\ f \in DOMAIN A.functions
    /\ A.functions[f].nodes # EmptyDict
    /\ B.functions = Without(A.functions, {f})
    /\ B.nodes = Without(A.nodes, DOMAIN A.functions[f].nodes)

\* C11 (as claimed): when the new snapshot is the baseline with one function
\* f and all of f's nodes removed, MetadataDelta(new, baseline) is
\* constructed without error, functions_removed is {f} and nodes_removed is
\* the set of f's node addresses.
C11_DeltaOfPureRemoval ==
    \A t \in Threads :
        (ret[t].op = "MetadataDelta" /\ ret[t].baseline) =>
            \A f \in FuncAddrs :
                PureRemoval(Snapshot, old_metadata, f) =>
                    /\ ret[t].delta.raised = None
                    /\ ret[t].delta.functions_removed = {f}
                    /\ ret[t].delta.nodes_removed =
                           DOMAIN old_metadata.functions[f].nodes

\* out is the walk of one block: it starts at the block's address, each
\* next position is the one before it plus the size of the instruction the
\* cache has there (1 when it has none), every position is below the
\* block's end and the step after the last one is not
IsWalk(ins, block, out) ==
    LET end == block[1] + block[2]
        next(a) == a + (IF a \in DOMAIN ins THEN ins[a] ELSE 1)
    IN IF block[2] <= 0 THEN out = << >>
       ELSE /\ out # << >>
            /\ out[1] = block[1]
            /\ \A i \in 1..Len(out) : out[i] < end
            /\ \A i \in 1..(Len(out) - 1) : out[i + 1] = next(out[i])
            /\ next(out[Len(out)]) >= end

RECURSIVE IsConcatenatedWalk(_, _, _)
\* out is the walks of the blocks one after the other, in block order
IsConcatenatedWalk(ins, blocks, out) ==
    IF blocks = << >> THEN out = << >>
    ELSE \E k \in 0..Len(out) :
            /\ IsWalk(ins, Head(blocks), SubSeq(out, 1, k))
            /\ IsConcatenatedWalk(ins, Tail(blocks), SubSeq(out, k + 1, Len(out)))

\* C12: flatten_blocks(blocks) is the reference walk of each block, the
\* walks concatenated in block order; with instructions {0x10: 2, 0x12: 4}
\* the block (0x10, 6) gives [0x10, 0x12], and a block over positions with
\* no instruction entry gives one address per byte.
C12_FlattenIsReferenceWalk ==
    \A t \in Threads :
        ret[t].op = "flatten_blocks" =>
            /\ IsConcatenatedWalk(instructions, ret[t].basic_blocks, ret[t].output)
            /\ (/\ instructions = (16 :> 2 @@ 18 :> 4)
                /\ ret[t].basic_blocks = << <<16, 6>> >>)
               => ret[t].output = <<16, 18>>
            /\ \A a \in 16..18, size \in {0, 2, 3, 6} :
                  (/\ ret[t].basic_blocks = << <<a, size>> >>
                   /\ DOMAIN instructions \cap (a..(a + size - 1)) = {})
                  => ret[t].output = [i \in 1..size |-> a + i - 1]

\* the block (0x10, 6) was flattened over instructions {0x10: 2, 0x12: 4}
C12_Witness ==
    /\ ret[1].op = "flatten_blocks"
    /\ instructions = (16 :> 2 @@ 18 :> 4)
    /\ ret[1].basic_blocks = << <<16, 6>> >>
    /\ ret[1].output = <<16, 18>>

C14_LookupLeavesIndexFresh ==
    \A t \in Threads : ret[t].op = "get_node" => ~stale_lookup

\* no call is part-way: the caller is between calls and no worker is
\* inside _update_functions
BetweenOperations ==
    /\ \A t \in Threads : cpc[t] = "idle"
    /\ \A w \in Workers : wpc[w] # "mark"

\* C15 (as claimed): in every state between operations, when the stale flag
\* is false node_addresses is the sorted list of the keys of nodes and
\* function_addresses the sorted list of the keys of functions.
C15_FreshIndexIsSortedKeys ==
    (BetweenOperations /\ ~stale_lookup) =>
        /\ node_addresses = sorted(DOMAIN nodes)
        /\ function_addresses = sorted(DOMAIN functions)

\* C16 (as claimed): between operations the nodes map is exactly the union
\* of function.nodes over the functions in functions: it holds every node
\* of every cached function and no other node.
C16_NodesAreUnionOfFunctionNodes ==
    BetweenOperations =>
        /\ DOMAIN nodes = UNION {DOMAIN functions[f].nodes : f \in DOMAIN functions}
        /\ \A f \in DOMAIN functions :
              \A a \in DOMAIN functions[f].nodes : nodes[a] = functions[f].nodes[a]

\* C17 (as claimed): between operations the instructions map is exactly the
\* union of the instruction maps of the nodes in the nodes map.
C17_InstructionsAreUnionOfNodeInstructions ==
    BetweenOperations =>
        /\ DOMAIN instructions = UNION {DOMAIN nodes[a].instructions : a \in DOMAIN nodes}
        /\ \A a \in DOMAIN nodes :
              \A i \in DOMAIN nodes[a].instructions :
                  instructions[i] = nodes[a].instructions[i]

\* C18 (as claimed): after the database has failed a chunk's collection the
\* refresh is over and the next refresh() is accepted: whenever no worker is
\* alive the worker slot is empty, so the assertion of refresh() holds.
C18_RefreshAcceptedAfterFailure ==
    (\A w \in Workers : ~is_alive(w)) => refresh_worker = NoWorker

\* the fields of a node other than its owner
NodeShape(n) == [address |-> n.address, size |-> n.size,
                 instruction_count |-> n.instruction_count, id |-> n.id,
                 instructions |-> n.instructions]

\* snapshots A and B differ only in the name of function f, a function
\* that has nodes: the same functions and nodes at the same addresses, every
\* node of the same shape, every other function the same
NameOnlyChange(B, A, f) ==
    /\ DOMAIN B.functions = DOMAIN A.functions
    /\ f \in DOMAIN A.functions
    /\ A.functions[f].nodes # EmptyDict
    /\ B.functions[f].name # A.functions[f].name
    /\ \A g \in DOMAIN A.functions \ {f} : B.functions[g] = A.functions[g]
    /\ DOMAIN B.functions[f].nodes = DOMAIN A.functions[f].nodes
    /\ DOMAIN B.nodes = DOMAIN A.nodes
    /\ \A a \in DOMAIN A.nodes : NodeShape(B.nodes[a]) = NodeShape(A.nodes[a])
    /\ \A a \in DOMAIN A.nodes \ DOMAIN A.functions[f].nodes :
          B.nodes[a] = A.nodes[a]
    /\ B.instructions = A.instructions

\* C19 (as claimed): when the new snapshot is the baseline with only the
\* name of one function f changed, MetadataDelta(new, baseline) is
\* constructed, f is not in functions_modified and none of f's nodes is in
\* nodes_modified.
C19_RenameIsNoModification ==
    \A t \in Threads :
        (ret[t].op = "MetadataDelta" /\ ret[t].baseline) =>
            \A f \in FuncAddrs :
                NameOnlyChange(Snapshot, old_metadata, f) =>
                    /\ ret[t].delta.raised = None
                    /\ f \notin ret[t].delta.functions_modified
                    /\ ret[t].delta.nodes_modified
                           \cap DOMAIN old_metadata.functions[f].nodes = {}

\* the refresh of worker w ended aborted: _async_collect_metadata returned
\* False and the thread is on its way out
Aborted(w) ==
    /\ wpc[w] \in {"lookup", "l_nodes", "l_funcs", "l_clear", "put", "clear"}
    /\ ~wloc[w].completed

\* the addresses of the chunks worker w has processed, and of those after
ProcessedAddresses(w) ==
    UNION {{Chunks(w)[c][i] : i \in 1..Len(Chunks(w)[c])} : c \in 1..wloc[w].chunk}
LaterAddresses(w) ==
    UNION {{Chunks(w)[c][i] : i \in 1..Len(Chunks(w)[c])} :
              c \in (wloc[w].chunk + 1)..Len(Chunks(w))}

\* the chunk worker w is about to collect and merge, if it is at the head
\* of its loop with a chunk left
CurrentChunk(w) ==
    IF wpc[w] = "loop" /\ wloc[w].chunk < Len(Chunks(w))
    THEN {Chunks(w)[wloc[w].chunk + 1][i] :
             i \in 1..Len(Chunks(w)[wloc[w].chunk + 1])}
    ELSE {}

\* function f is cached whole: it is in functions, each of its nodes is the
\* entry of nodes at its address and each instruction of each of its nodes
\* is in instructions
CachedWhole(f) ==
    /\ f \in DOMAIN functions
    /\ \A a \in DOMAIN functions[f].nodes :
          /\ a \in DOMAIN nodes
          /\ nodes[a] = functions[f].nodes[a]
          /\ \A i \in DOMAIN nodes[a].instructions :
                /\ i \in DOMAIN instructions
                /\ instructions[i] = nodes[a].instructions[i]

\* the entry of the functions map at f, NoObject for none
CachedFunction(fns, f) == IF f \in DOMAIN fns THEN fns[f] ELSE NoObject

\* C20: merges are chunk-atomic with respect to cancellation. When the
\* refresh of a worker has ended aborted after k chunks, every function of
\* the first k chunks of its target list is in functions with all of its
\* nodes in nodes and all of their instructions in instructions; and no step
\* of a worker adds or replaces a function outside the chunk it is at, so no
\* function of a later chunk has been added or replaced.
C20_MergesAreChunkAtomic ==
    /\ [](\A w \in Workers :
             Aborted(w) => \A f \in ProcessedAddresses(w) : CachedWhole(f))
    /\ [][\A w \in Workers :
             WorkerStep(w) =>
                 /\ \A f \in FuncAddrs \ CurrentChunk(w) :
                       CachedFunction(functions', f) = CachedFunction(functions, f)
                 /\ CurrentChunk(w) = {} =>
                       UNCHANGED <<functions, nodes, instructions>>]_vars

\* a refresh over two functions was aborted after its first chunk: the
\* function of the first chunk is cached with a node, that of the second
\* chunk is defined in the database and absent from the cache
C20_Witness ==
    \E w \in Workers :
        /\ Aborted(w)
        /\ wloc[w].chunk >= 1
        /\ \E f \in ProcessedAddresses(w) :
              f \in DOMAIN functions /\ functions[f].nodes # EmptyDict
        /\ \E g \in LaterAddresses(w) :
              database[g] # 0 /\ g \notin DOMAIN functions

\* C21: await_lock(lock) has exactly two outcomes. When it has returned, the
\* caller holds the lock; when it has raised RuntimeError, the time is at or
\* past the 60 seconds after the call and the caller does not hold the lock;
\* and a call of await_lock always comes to one of the two.
C21_AwaitLockOutcomes ==
    /\ [](\A t \in Threads :
             ret[t].op = "await_lock" =>
                 \/ ret[t].raised = None /\ lock = "caller"
                 \/ /\ ret[t].raised = "RuntimeError"
                    /\ now >= ret[t].end_time
                    /\ lock # "caller")
    /\ \A t \in {1} : (cpc[t] = "k_test") ~> (ret[t].op = "await_lock")

\* await_lock has raised after an attempt that found the lock held, with the
\* lock free again at the time of the raise
C21_Witness ==
    /\ ret[1].op = "await_lock"
    /\ ret[1].raised = "RuntimeError"
    /\ ret[1].attempts > 0
    /\ lock = "unlocked"

\* the node addresses at which snapshots B and A differ: the keys of one
\* only, and the common keys whose nodes are unequal
NodesOnlyIn(B, A) == DOMAIN B.nodes \ DOMAIN A.nodes
NodesUnequal(B, A) ==
    {a \in DOMAIN B.nodes \cap DOMAIN A.nodes : ~NodeEq(B.nodes[a], A.nodes[a])}

\* the owners of the nodes at which B and A differ: the function of each
\* added node, of each removed node, and both functions of a modified one
Owners(B, A) ==
    {B.nodes[a].function.address : a \in NodesOnlyIn(B, A) \cup NodesUnequal(B, A)}
    \cup {A.nodes[a].function.address :
             a \in NodesOnlyIn(A, B) \cup NodesUnequal(B, A)}

\* C22 (as claimed): MetadataDelta(new, old) against a baseline is
\* constructed with nodes_added the keys of new.nodes not in old.nodes,
\* nodes_removed the keys of old.nodes not in new.nodes and nodes_modified the
\* common keys whose nodes are unequal, and every owner of such a node is
\* among the functions it reports.
C22_NodeDiff ==
    \A t \in Threads :
        (ret[t].op = "MetadataDelta" /\ ret[t].baseline) =>
            /\ ret[t].delta.raised = None
            /\ ret[t].delta.nodes_added = NodesOnlyIn(Snapshot, old_metadata)
            /\ ret[t].delta.nodes_removed = NodesOnlyIn(old_metadata, Snapshot)
            /\ ret[t].delta.nodes_modified = NodesUnequal(Snapshot, old_metadata)
            /\ Owners(Snapshot, old_metadata) \subseteq
                   ret[t].delta.functions_added
                   \cup ret[t].delta.functions_removed
                   \cup ret[t].delta.functions_modified

\* C23 (as claimed): MetadataDelta(new, old) against a baseline is
\* constructed with, of the functions the node diff marked dirty, those not
\* in new.functions as functions_removed, those in new.functions and not in
\* old.functions as functions_added and those in both as functions_modified,
\* no other address in the three sets, and the dirty set empty.
C23_FunctionDiffOverDirtySet ==
    \A t \in Threads :
        (ret[t].op = "MetadataDelta" /\ ret[t].baseline) =>
            LET dirty == Owners(Snapshot, old_metadata) IN
            /\ ret[t].delta.raised = None
            /\ ret[t].delta.functions_removed =
                   {a \in dirty : a \notin DOMAIN functions}
            /\ ret[t].delta.functions_added =
                   {a \in dirty : a \in DOMAIN functions
                                  /\ a \notin DOMAIN old_metadata.functions}
            /\ ret[t].delta.functions_modified =
                   {a \in dirty : a \in DOMAIN functions
                                  /\ a \in DOMAIN old_metadata.functions}
            /\ ret[t].delta.dirty_functions = {}

\* worker w is inside a chunk: collecting it, merging it, or past the merge
\* and before the test of the flag; and the ordinal of that chunk
InChunk(w) == CurrentChunk(w) # {} \/ wpc[w] \in {"mark", "check"}
ChunkAt(w) == IF wpc[w] = "loop" THEN wloc[w].chunk + 1 ELSE wloc[w].chunk

\* C24: cancellation is checked only at chunk boundaries. From a state with
\* the flag set and worker w inside chunk k, every step leaves the flag set
\* and w inside chunk k, or has w give up at the test of the flag (or die of
\* a database failure); a worker that gave up processes no further chunk;
\* and a worker that collects a chunk with the flag set, the database
\* answering, merges that chunk whole.
C24_CancellationAtChunkBoundaries ==
    [][\A w \in Workers :
          /\ (stop_threads /\ InChunk(w)) =>
                \/ stop_threads' /\ InChunk(w)' /\ ChunkAt(w)' = ChunkAt(w)
                \/ Aborted(w)' /\ wloc'[w].chunk = ChunkAt(w)
                \/ wpc'[w] = "dead"
          /\ Aborted(w) =>
                \/ Aborted(w)' /\ wloc'[w].chunk = wloc[w].chunk
                \/ wpc'[w] = "dead"
          /\ (/\ WorkerStep(w)
              /\ stop_threads
              /\ CurrentChunk(w) # {}
              /\ wpc'[w] # "dead") =>
                 /\ wloc'[w].chunk = wloc[w].chunk + 1
                 /\ \A f \in CurrentChunk(w) : CachedWhole(f)']_vars

\* the flag is set while a worker is in the middle of merging the first of
\* its two chunks
C24_Witness ==
    \E w \in Workers :
        /\ stop_threads
        /\ wpc[w] = "mark"
        /\ wloc[w].chunk = 1
        /\ Len(Chunks(w)) = 2

\* the pairs the progress callback has been called with are, in order, the
\* running totals of the sizes of the first chunks of the target list, each
\* with the length of the target list
ReportsFollowChunks(w) ==
    \A i \in 1..Len(wloc[w].progress) :
        /\ wloc[w].progress[i][2] = Len(wloc[w].targets)
        /\ wloc[w].progress[i][1] <= wloc[w].progress[i][2]
        /\ wloc[w].progress[i][1] =
               Cardinality({j \in 1..Len(wloc[w].targets) : j <= i * CHUNK_SIZE})
        /\ \A j \in 1..(i - 1) : wloc[w].progress[j][1] < wloc[w].progress[i][1]

\* C25: within one refresh the chunks are merged in target-list order, each
\* chunk is merged whole before its progress report, and the report is made
\* before the test of the flag and before the next chunk is collected; the
\* completed counts reported are strictly increasing and at most total, and
\* the last report of a refresh that completed naturally is (total, total).
C25_ChunkOrderAndProgress ==
    /\ [](\A w \in Workers :
             /\ ReportsFollowChunks(w)
             /\ wpc[w] = "mark" => Len(wloc[w].progress) = wloc[w].chunk - 1
             /\ wpc[w] \in {"check", "loop"} =>
                   Len(wloc[w].progress) = wloc[w].chunk
             /\ (wloc[w].completed /\ wloc[w].progress # << >>) =>
                   wloc[w].progress[Len(wloc[w].progress)] =
                       <<Len(wloc[w].targets), Len(wloc[w].targets)>>)
    /\ [][\A w \in Workers :
             /\ (WorkerStep(w) /\ CurrentChunk(w) # {} /\ wpc'[w] # "dead") =>
                   /\ wloc'[w].chunk = wloc[w].chunk + 1
                   /\ \A f \in FuncAddrs \ CurrentChunk(w) :
                         CachedFunction(functions', f) = CachedFunction(functions, f)
             /\ wloc'[w].progress # wloc[w].progress =>
                   \/ wpc'[w] = "dead"
                   \/ /\ wpc[w] = "mark"
                      /\ \A f \in {Chunks(w)[wloc[w].chunk][i] :
                                     i \in 1..Len(Chunks(w)[wloc[w].chunk])} :
                            CachedWhole(f)]_vars

\* a refresh has completed naturally after two reports or more
C25_Witness ==
    \E w \in Workers :
        /\ wloc[w].completed
        /\ Len(wloc[w].progress) >= 2

\* functions f and g differ in a field a function's equality is over: name,
\* size, address, node count, instruction count or the set of node addresses
Unequal(f, g) ==
    <<f.name, f.size, f.address, f.node_count, f.instruction_count, DOMAIN f.nodes>>
        # <<g.name, g.size, g.address, g.node_count, g.instruction_count,
            DOMAIN g.nodes>>

\* C26: _update_functions(fresh) returns the entries of fresh at the
\* addresses with no cached function or a cached function unequal to the
\* fresh one; after the call each of them is the entry of functions at its
\* address, and the entry of functions at every other address is what it was.
C26_UpdateReturnsDelta ==
    [][\A t \in Threads :
          ret'[t].op = "update_functions" =>
              LET fresh == collect_function_metadata(database, ret'[t].addresses)
                  delta == ret'[t].delta
              IN /\ DOMAIN delta =
                        {a \in DOMAIN fresh :
                            \/ a \notin DOMAIN functions
                            \/ Unequal(functions[a], fresh[a])}
                 /\ \A a \in DOMAIN delta :
                       delta[a] = fresh[a] /\ functions'[a] = fresh[a]
                 /\ \A a \in FuncAddrs \ DOMAIN delta :
                       CachedFunction(functions', a) = CachedFunction(functions, a)]_vars

\* a merge of two functions returned one of them and dropped the other
C26_Witness ==
    /\ ret[1].op = "update_functions"
    /\ Len(ret[1].addresses) = 2
    /\ Cardinality(DOMAIN ret[1].delta) = 1
    /\ \E a \in DOMAIN ret[1].delta : functions[a].node_count > 0

\* C27 (as claimed): a node built from a block (start, end) with start < end
\* has size end - start, which is the sum of the sizes in its instruction
\* map; its instruction_count is the number of entries of the map; and every
\* address of the map is in [start, end).
C27_NodeShape ==
    \A t \in Threads :
        ret[t].op = "NodeMetadata" =>
            LET node == ret[t].node IN
            /\ node.size = ret[t].endEA - ret[t].startEA
            /\ node.size = SumOver(node.instructions, DOMAIN node.instructions)
            /\ node.instruction_count = Cardinality(DOMAIN node.instructions)
            /\ \A a \in DOMAIN node.instructions :
                  ret[t].startEA <= a /\ a < ret[t].endEA

\* block i of the flowchart is not empty and no later block starts where it
\* starts
Kept(flow, i) ==
    /\ flow[i][1] # flow[i][2]
    /\ \A j \in (i + 1)..Len(flow) :
          ~(flow[j][1] # flow[j][2] /\ flow[j][1] = flow[i][1])

\* C28: a function built from a flowchart has a node for each block that is
\* not empty (the last one of those that start at one address) and no other
\* node; node_count is the number of entries of nodes, size the sum of the
\* nodes' sizes and instruction_count the sum of their instruction counts;
\* each node's function is the function and its id the index of its block in
\* the flowchart.
C28_FunctionShape ==
    \A t \in Threads :
        ret[t].op = "FunctionMetadata" =>
            LET f == ret[t].function
                flow == ret[t].flowchart
            IN /\ DOMAIN f.nodes =
                      {flow[i][1] : i \in {j \in 1..Len(flow) : flow[j][1] # flow[j][2]}}
               /\ \A a \in DOMAIN f.nodes : f.nodes[a].size > 0
               /\ f.node_count = Cardinality(DOMAIN f.nodes)
               /\ f.size = SumOver([a \in DOMAIN f.nodes |-> f.nodes[a].size],
                                   DOMAIN f.nodes)
               /\ f.instruction_count =
                      SumOver([a \in DOMAIN f.nodes |-> f.nodes[a].instruction_count],
                              DOMAIN f.nodes)
               /\ \A a \in DOMAIN f.nodes :
                     /\ f.nodes[a].function.address = f.address
                     /\ f.nodes[a].function.name = f.name
                     /\ f.nodes[a].function.node_addresses = DOMAIN f.nodes
                     /\ \E i \in 1..Len(flow) :
                           /\ Kept(flow, i)
                           /\ flow[i] = <<a, a + f.nodes[a].size>>
                           /\ f.nodes[a].id = i - 1

\* a function was built from a flowchart of an empty block followed by a
\* block that is not empty
C28_Witness ==
    /\ ret[1].op = "FunctionMetadata"
    /\ Len(ret[1].flowchart) >= 2
    /\ ret[1].flowchart[1][1] = ret[1].flowchart[1][2]
    /\ ret[1].function.node_count = 1
    /\ \E a \in DOMAIN ret[1].function.nodes : ret[1].function.nodes[a].id = 1

\* C29 (as claimed): once the result of a refresh is on its queue, where the
\* caller that waits for it gets it, the worker slot no longer holds the
\* worker of that refresh, so that the assertion of the caller's next
\* refresh() holds.
C29_SlotClearedBeforeDelivery ==
    \A w \in Workers : result_queue[w] # << >> => refresh_worker # w

\* C30: a refresh that started a worker delivers at most one value on its
\* queue and, the worker being scheduled and the database answering,
\* eventually one, which stays the only one.
C30_OneValueDelivered ==
    /\ [](\A w \in Workers :
             /\ Len(result_queue[w]) <= 1
             /\ wpc[w] = "dead" => Len(result_queue[w]) = 1)
    /\ \A w \in Workers : (started >= w) ~> (Len(result_queue[w]) = 1)

\* a refresh of a database without functions has delivered its value while
\* an abort was signalled
C30_Witness ==
    \E w \in Workers :
        /\ wpc[w] = "clear"
        /\ wloc[w].targets = << >>
        /\ Len(result_queue[w]) = 1
        /\ stop_threads

\* C31 (as claimed): a refresh during which no abort_refresh() call began,
\* from its refresh() call to the delivery of its result, delivers the
\* DatabaseMetadata and not None, however the calls of refresh() and
\* abort_refresh() and the steps of the workers interleave.
C31_OnlyOwnAbortCancels ==
    [][\A w \in Workers :
          (result_queue'[w] # result_queue[w] /\ ~wloc[w].abort_requested) =>
              result_queue'[w] = <<"self">>]_vars

\* C32 (as claimed): when get_node(a) has returned a node, the node contains
\* a and is the node that the nodes map holds at the node's address: a
\* memoized node that a merge has replaced since is not returned.
C32_LookupReturnsStoredNode ==
    \A t \in Threads :
        (ret[t].op = "get_node" /\ ret[t].node # NoObject) =>
            /\ NodeContains(ret[t].node, ret[t].address)
            /\ ret[t].node.address \in DOMAIN nodes
            /\ nodes[ret[t].node.address] = ret[t].node

\* C33: between operations, after any refreshes and merges, every node
\* address of every function in functions is a key of nodes, and every
\* instruction address of those nodes (as the function holds them and as the
\* nodes map holds them) is a key of instructions.
C33_FlattenedMapsCoverFunctions ==
    BetweenOperations =>
        \A f \in DOMAIN functions :
            \A a \in DOMAIN functions[f].nodes :
                /\ a \in DOMAIN nodes
                /\ DOMAIN functions[f].nodes[a].instructions \subseteq DOMAIN instructions
                /\ DOMAIN nodes[a].instructions \subseteq DOMAIN instructions

\* a function with two nodes is cached after a merge that replaced the
\* nodes of an earlier one, whose instruction at an address no node of a
\* cached function holds is still in the instructions map
C33_Witness ==
    /\ BetweenOperations
    /\ \E f \in DOMAIN functions : Cardinality(DOMAIN functions[f].nodes) = 2
    /\ \E i \in DOMAIN instructions :
          \A f \in DOMAIN functions :
              \A a \in DOMAIN functions[f].nodes :
                  i \notin DOMAIN functions[f].nodes[a].instructions

\* the refresh of worker w was given a list, is started and has not
\* delivered its result
PartialInFlight(w) ==
    /\ wpc[w] \notin {"unborn", "dead"}
    /\ result_queue[w] = << >>
    /\ ~wloc[w].full

\* C34: a refresh given an explicit function_addresses list removes no
\* function and changes no cached function outside the list: from the call
\* to the delivery of the result, every step leaves every function in
\* functions, and leaves functions as it is at every address outside the
\* list.
C34_PartialRefreshFrame ==
    [][/\ \A t \in Threads :
             (loc[t].op = "refresh" /\ ~loc[t].full) => UNCHANGED functions
       /\ \A w \in Workers :
             PartialInFlight(w) =>
                 /\ DOMAIN functions \subseteq DOMAIN functions'
                 /\ \A f \in FuncAddrs \ Values(wloc[w].targets) :
                       CachedFunction(functions', f) = CachedFunction(functions, f)]_vars

\* a refresh of a list that names one function has delivered its result
\* and cached that function, while a function outside the list, which the
\* database no longer defines as it is cached, is still cached
C34_Witness ==
    \E w \in Workers :
        /\ wpc[w] = "clear"
        /\ ~wloc[w].full
        /\ result_queue[w] = <<"self">>
        /\ Len(wloc[w].targets) = 1
        /\ wloc[w].targets[1] \in DOMAIN functions
        /\ \E g \in DOMAIN functions \ {wloc[w].targets[1]} :
              database[g] = 0 \/ functions[g] # BuildFunction(g, database[g])

\* the positions of a caller inside get_node()
InGetNode == {"g_nodes", "g_funcs", "g_clear", "g_bisect", "g_probe"}

\* a step of get_node() by caller t: it enters the call, goes on inside it,
\* or returns from the memo at once
GetNodeStep(t) ==
    \/ cpc[t] \in InGetNode /\ cpc'[t] # cpc[t]
    \/ cpc[t] = "idle" /\ cpc'[t] \in InGetNode
    \/ cpc[t] = "idle" /\ cpc'[t] = "idle" /\ ret'[t].op = "get_node"

\* C35: no step of get_node() or of flatten_blocks() writes functions, nodes
\* or instructions; flatten_blocks() writes no field at all, get_node()
\* writes at most the two index lists, the stale flag and the memo, and it
\* writes the memo only in the step in which it returns the node it wrote,
\* so that a get_node() that fails leaves the memo as it was.
C35_ReadersFrame ==
    [][\A t \in Threads :
          /\ GetNodeStep(t) =>
                 /\ UNCHANGED <<functions, nodes, instructions>>
                 /\ UNCHANGED <<database, flags, old_metadata, workers>>
                 /\ last_node' # last_node =>
                        /\ ret'[t].op = "get_node"
                        /\ ret'[t].node # NoObject
                        /\ ret'[t].node = last_node'
          /\ (cpc[t] = "idle" /\ ret'[t].op = "flatten_blocks") =>
                 UNCHANGED <<cache, flags, old_metadata, workers>>]_vars

\* a get_node() has failed after rebuilding the index, while a node
\* memoized by an earlier call is still held
C35_Witness ==
    /\ ret[1].op = "get_node"
    /\ ret[1].node = NoObject
    /\ ret[1].rebuilt
    /\ last_node # NoObject

\* no two of the three sets share an element
PairwiseDisjoint(A, B, C) ==
    /\ A \cap B = {}
    /\ A \cap C = {}
    /\ B \cap C = {}

C37_DeltaOfIdenticalSnapshots ==
    \A t \in Threads :
        (/\ ret[t].op = "MetadataDelta"
         /\ ret[t].baseline
         /\ Snapshot = old_metadata) =>
            /\ ret[t].delta.raised = None
            /\ ret[t].delta.nodes_added = {}
            /\ ret[t].delta.nodes_removed = {}
            /\ ret[t].delta.nodes_modified = {}
            /\ ret[t].delta.functions_added = {}
            /\ ret[t].delta.functions_removed = {}
            /\ ret[t].delta.functions_modified = {}

\* the delta of a snapshot of two functions against an identical baseline
\* was computed
C37_Witness ==
    /\ ret[1].op = "MetadataDelta"
    /\ ret[1].baseline
    /\ Snapshot = old_metadata
    /\ Cardinality(DOMAIN functions) = 2
    /\ Cardinality(DOMAIN nodes) >= 2

\* the addresses flatten_blocks() has put out for the block it is at or has
\* just left
BlockOutput(t) ==
    SubSeq(loc[t].output, loc[t].block_start + 1, Len(loc[t].output))

\* C38: with every cached instruction size at least 1, a call of
\* flatten_blocks() on a finite list returns; and when it has left a block
\* (address, size), the addresses it put out for the block are strictly
\* increasing, lie in [address, address + size), begin with address when
\* size > 0 and are none when size <= 0.
C38_FlattenTerminatesInRange ==
    /\ [](\A t \in Threads :
             (cpc[t] = "f_for" /\ loc[t].index >= 1) =>
                 LET block == loc[t].basic_blocks[loc[t].index]
                     out == BlockOutput(t)
                 IN /\ \A i \in 1..(Len(out) - 1) : out[i] < out[i + 1]
                    /\ \A i \in 1..Len(out) :
                          block[1] <= out[i] /\ out[i] < block[1] + block[2]
                    /\ block[2] > 0 => (out # << >> /\ out[1] = block[1])
                    /\ block[2] <= 0 => out = << >>)
    /\ \A t \in Threads :
          (cpc[t] \in {"f_for", "f_while"}) ~> (ret[t].op = "flatten_blocks")

\* the call has left a block of six bytes, taken after a block of negative
\* size, with two addresses put out that a cached instruction of more than
\* one byte separates
C38_Witness ==
    /\ cpc[1] = "f_for"
    /\ loc[1].index = 2
    /\ loc[1].basic_blocks[1][2] < 0
    /\ loc[1].basic_blocks[2][2] = 6
    /\ \E i \in 1..(Len(BlockOutput(1)) - 1) :
          BlockOutput(1)[i + 1] - BlockOutput(1)[i] >= 2

====
